---------------------------- MODULE Spec2Model ----------------------------
(***************************************************************************)
(* Momentum AI Video: the media generation pipeline.                       *)
(*                                                                         *)
(*   EditorService.render_video      services/editor_service.py            *)
(*   AnalysisService.analyze_audio   services/analysis_service.py          *)
(*   AnalysisService.analyze_videos  services/analysis_service.py          *)
(*   MomentumController.start_video_generation   controller.py             *)
(*                                                                         *)
(* Coroutines are modelled at the granularity of the asyncio event loop:   *)
(* one action runs from one await to the next.  The external tool, the     *)
(* file system and the AI client are the environment: their outcomes are   *)
(* nondeterministic choices.                                               *)
(***************************************************************************)
EXTENDS Integers, Sequences, FiniteSets, TLC

\* ------------------------------------------------------------------ bounds
MaxShots == 3
MaxVideos == 3
MaxFiles == 3
MaxPlanShots == 2
\* render_video calls in flight at the same time on one event loop
MaxJobs == 2
\* beat_track reports beats at frames 0..MaxBeatFrame
MaxBeatFrame == 5
\* analyze_frames is given at most this many frames
MaxFrameCount == 4
\* the largest key_moment_timestamp the model answers
MaxTimestamp == 3
\* extract_evenly_spaced_frames is asked for at most this many frames
MaxCount == 4
\* the largest frame count OpenCV reports for a video
MaxTotalFrames == 6
\* the longest overlay text, in characters
MaxTextLen == 4
\* the clicks on the Generate button
MaxClicks == 2

\* ------------------------------------------------------------- the universe
None == "None"

AudioPath == "a.wav"
VideoPaths == {"v1.mp4", "v2.mov"}
\* A third video, known to the analysis only.
AnalysisPaths == VideoPaths \cup {"v3.mp4"}
\* What the user may drop on the window.
InputPaths == {"a.wav", "b.MP3", "v1.mp4", "v2.mov", "n.txt"}
AllPaths == AnalysisPaths \cup InputPaths

\* What a path is on disk.
Kinds == {"absent", "file", "dir"}

\* Shot.text_overlay as render_video reads it: absent, or its text.
Overlays == {None, "", "hi"}

Shots == [video_path : VideoPaths, text_overlay : Overlays]

RECURSIVE SeqsUpTo(_, _)
SeqsUpTo(S, n) ==
    IF n = 0 THEN {<<>>}
    ELSE LET shorter == SeqsUpTo(S, n - 1)
         IN  shorter \cup {Append(s, x) : s \in {t \in shorter : Len(t) = n - 1}, x \in S}

\* Outcome of one subprocess.run(check=True) executed by asyncio.to_thread.
ToolOutcomes == {"ok", "exit_nonzero", "launch_failure"}

VARIABLES
    fs,                 \* path -> kind on disk
    \* --- EditorService.render_video
    rpc,                \* position of the coroutine
    edl,                \* edl.shots
    audio_path,
    output_path,
    temp_dir,           \* None or the directory mkdtemp returned
    dirs,               \* temporary directories that exist on disk
    i,                  \* enumerate index of the staging loop (1-based)
    intermediate_clips,
    concat_list,        \* lines written to concat_list.txt; None before
    calls,              \* external-tool invocations, in launch order
    pending,            \* what the try block leaves for after the finally
    rresult,            \* how render_video ended
    cleanup,            \* what the finally block did
    \* --- AnalysisService.analyze_videos
    apc,                \* position of the coroutine
    video_paths,
    vidx,               \* index of the for loop (1-based)
    video_analyses,     \* the dict being filled: path -> analysis
    alog,               \* per processed video: missing / running / ok / error
    aresult,            \* how analyze_videos ended
    \* --- MomentumController.start_video_generation
    cpc,                \* position of the coroutine
    file_paths,
    audio_file_path,
    video_file_paths,
    signals,            \* the Qt signals emitted, in order
    audio_outcome,      \* which return of analyze_audio ran
    audio_analysis,
    requests,           \* requests sent to the generative model
    response,           \* what the generative model answered
    plan,               \* what create_edit_plan returned or raised
    \* --- EditorService.__init__
    service,            \* the service object: its state and the tool checks made
    \* --- render_video calls that run concurrently
    jobs,               \* job -> its position, its temp_dir and its result
    workspaces,         \* name under the temp root -> the job that created it, 0: absent
    \* --- components run on their own
    codec,              \* an EDL on its way to JSON and back
    detector,           \* one AudioProcessor.detect_beats call
    analyzer,           \* one MultimodalAIClient.analyze_frames call
    extractor,          \* one VideoFrameExtractor.extract_evenly_spaced_frames call
    \* --- the main window and the overlay text on its way into a command
    gui,                \* MainWindow: the button, the status label, the dropped files
    escaper             \* an overlay text, escaped and read back

rvars == <<rpc, edl, audio_path, output_path, temp_dir, dirs, i,
           intermediate_clips, concat_list, calls, pending, rresult, cleanup>>

avars == <<apc, video_paths, vidx, video_analyses, alog, aresult>>

cvars == <<cpc, file_paths, audio_file_path, video_file_paths, signals,
           audio_outcome, audio_analysis, requests, response, plan>>

\* The components that are run on their own.
pvars == <<codec, detector, analyzer, extractor>>

gvars == <<gui, escaper>>

xvars == <<service, jobs, workspaces, pvars, gvars>>

vars == <<fs, rvars, avars, cvars, xvars>>

\* ------------------------------------------------------- pathlib.Path
Exists(p) == fs[p] # "absent"
IsFile(p) == fs[p] = "file"

\* ------------------------------------------------- render_video helpers
Workspace == "momentum_editor_1"

\* Mutant: every shot is staged to the same file.
ClipPathFixed(dir, k) == <<dir, "clip", 0>>

\* temp_dir / f"clip_{i:03d}.mp4", i the 0-based enumerate index
ClipPath(dir, k) == <<dir, "clip", k - 1>>

\* format(n, "03d"): the decimal digits of n, padded with zeros to three.
RECURSIVE Digits(_)
Digits(n) == IF n < 10 THEN <<n>> ELSE Append(Digits(n \div 10), n % 10)

Format03d(n) ==
    LET d == Digits(n)
    IN  IF Len(d) >= 3 THEN d ELSE [k \in 1..(3 - Len(d)) |-> 0] \o d
ConcatListPath(dir) == <<dir, "concat_list.txt">>
\* Mutant: the concatenated video is written to the working directory.
ConcatenatedVideoPathElsewhere(dir) == <<"cwd", "concatenated_video.mp4">>

ConcatenatedVideoPath(dir) == <<dir, "concatenated_video.mp4">>

\* shot.video_path is an attribute of the shot, or the read raises.
HasVideoPath(shot) == "video_path" \in DOMAIN shot

SourceMissing(shot) == ~Exists(shot.video_path)

\* Mutant: any overlay, also one with an empty text, gets the filter.
HasDrawtextAnyOverlay(shot) == shot.text_overlay # None

\* Line 111: if shot.text_overlay and shot.text_overlay.text
HasDrawtext(shot) == shot.text_overlay # None /\ shot.text_overlay # ""

StageCommand(dir, k, shot) ==
    [stage |-> "stage", shot |-> k, input |-> shot.video_path,
     vf |-> IF HasDrawtext(shot) THEN shot.text_overlay ELSE None,
     target |-> ClipPath(dir, k), outcome |-> "running"]

ConcatCommand(dir) ==
    [stage |-> "concat", shot |-> 0, input |-> ConcatListPath(dir),
     vf |-> None, target |-> ConcatenatedVideoPath(dir), outcome |-> "running"]

FinalCommand(dir, audio, out) ==
    [stage |-> "mux", shot |-> 0, input |-> <<ConcatenatedVideoPath(dir), audio>>,
     vf |-> None, target |-> out, outcome |-> "running"]

NoResult == [kind |-> "none", type |-> None, msg |-> None]
Returned(v) == [kind |-> "return", type |-> None, msg |-> v]
Raised(t, m) == [kind |-> "raise", type |-> t, msg |-> m]

StageMessage(stage) ==
    CASE stage = "stage" -> "Failed to process video clip"
      [] stage = "concat" -> "Failed to concatenate video clips"
      [] stage = "mux" -> "Failed to merge audio and video"

\* except subprocess.CalledProcessError -> RuntimeError(stage message);
\* except Exception -> logged and re-raised as it is.
ToolFailure(stage, outcome) ==
    IF outcome = "exit_nonzero"
    THEN Raised("RuntimeError", StageMessage(stage))
    ELSE Raised("FileNotFoundError", "No such file or directory: ffmpeg")

Finish(outcome) ==
    [calls EXCEPT ![Len(calls)].outcome = outcome]

Running == {k \in DOMAIN calls : calls[k].outcome = "running"}


\* ------------------------------------------------ EditorService.__init__
\* No EditorService has been constructed.
NoService == [state |-> "new", checks |-> 0, error |-> NoResult]

\* ------------------------------------------- concurrent render_video calls
JobIds == 1..MaxJobs

\* The names tempfile.mkdtemp(prefix="momentum_editor_") can come up with: one
\* more than there are jobs, so that a free one always exists.
TempNames == 1..(MaxJobs + 1)

\* The await points of one call: staging, concat, mux.
JobStages == 3

NoJob == [pc |-> "idle", temp_dir |-> 0, stage |-> 0, result |-> NoResult]

\* ----------------------------------------------------- single components
NoCodec == [pc |-> "idle", doc |-> <<>>, edl |-> <<>>, text |-> <<>>, back |-> <<>>]

NoDetector ==
    [pc |-> "idle", tempo |-> None, beat_frames |-> <<>>, error |-> None, result |-> NoResult]

NoReply == [kind |-> None, doc |-> <<>>]

NoAnalyzer == [pc |-> "idle", frames |-> 0, response |-> NoReply, result |-> NoResult]

NoExtractor ==
    [pc |-> "idle", num_frames |-> 0, opened |-> FALSE, total_frames |-> 0,
     indices_to_extract |-> <<>>, indices |-> <<>>, extracted |-> <<>>,
     error |-> None, result |-> NoResult]

\* MainWindow.__init__ and _setup_ui, lines 20-85: no files, the status label
\* invites a drop, the button is disabled. coroutines counts the calls of
\* start_video_generation the window has made.
Status(kind, files, payload) == [kind |-> kind, files |-> files, payload |-> payload]

NoGui ==
    [enabled |-> FALSE,
     status |-> Status("Drop media files to begin.", <<>>, [kind |-> None, text |-> None]),
     dropped_file_paths |-> <<>>,
     coroutines |-> 0]

NoEscaper == [pc |-> "idle", text |-> <<>>, escaped |-> <<>>]

\* The components that are not part of the run at hand.
ComponentsIdle ==
    /\ gui = NoGui
    /\ escaper = NoEscaper
    /\ service = NoService
    /\ jobs = [j \in JobIds |-> NoJob]
    /\ workspaces = [n \in TempNames |-> 0]
    /\ codec = NoCodec
    /\ detector = NoDetector
    /\ analyzer = NoAnalyzer
    /\ extractor = NoExtractor

\* --------------------------------------------------------- analyze_videos
\* What ai_client.analyze_video_content returns for a path.
Analysis(p) == [video_path |-> p, scenes |-> "scenes"]

\* dict[key] = value
DictSet(d, key, value) ==
    [x \in (DOMAIN d) \cup {key} |-> IF x = key THEN value ELSE d[x]]

EmptyDict == [x \in {} |-> None]

\* Outcome of one awaited ai_client.analyze_video_content.
AnalysisOutcomes == {"ok", "error"}

AnalysisIdle ==
    /\ apc = "idle"
    /\ video_paths = <<>>
    /\ vidx = 0
    /\ video_analyses = EmptyDict
    /\ alog = <<>>
    /\ aresult = NoResult

\* analyze_videos(paths) is called: lines 82-83.
AnalyzeCall(paths) ==
    /\ apc' = "loop"
    /\ video_paths' = paths
    /\ vidx' = 1
    /\ video_analyses' = EmptyDict
    /\ alog' = <<>>
    /\ aresult' = NoResult

\* Lines 85-90: a path that is not a file is skipped.
AnalyzeSkip ==
    /\ apc = "loop"
    /\ vidx <= Len(video_paths)
    /\ ~IsFile(video_paths[vidx])
    /\ alog' = Append(alog, "missing")
    /\ vidx' = vidx + 1
    /\ UNCHANGED <<xvars, cvars, fs, rvars, apc, video_paths, video_analyses, aresult>>

\* Lines 92-95: the analysis of the current video is requested and awaited.
AnalyzeStart ==
    /\ apc = "loop"
    /\ vidx <= Len(video_paths)
    /\ IsFile(video_paths[vidx])
    /\ alog' = Append(alog, "running")
    /\ apc' = "awaiting"
    /\ UNCHANGED <<xvars, cvars, fs, rvars, video_paths, vidx, video_analyses, aresult>>

\* Mutant: an error of the AI client leaves the coroutine.
AnalyzeFinishReraises ==
    /\ apc = "awaiting"
    /\ \E outcome \in AnalysisOutcomes :
         /\ alog' = [alog EXCEPT ![Len(alog)] = outcome]
         /\ IF outcome = "ok"
            THEN /\ video_analyses' = DictSet(video_analyses, video_paths[vidx],
                                              Analysis(video_paths[vidx]))
                 /\ vidx' = vidx + 1
                 /\ apc' = "loop"
                 /\ UNCHANGED aresult
            ELSE /\ apc' = "done"
                 /\ aresult' = Raised("RuntimeError", "analysis failed")
                 /\ UNCHANGED <<video_analyses, vidx>>
    /\ UNCHANGED <<xvars, cvars, fs, rvars, video_paths>>

\* Mutant: a failed video is stored with an empty placeholder.
AnalyzeFinishPlaceholder ==
    /\ apc = "awaiting"
    /\ \E outcome \in AnalysisOutcomes :
         /\ alog' = [alog EXCEPT ![Len(alog)] = outcome]
         /\ video_analyses' =
               DictSet(video_analyses, video_paths[vidx],
                       IF outcome = "ok" THEN Analysis(video_paths[vidx])
                       ELSE [video_path |-> video_paths[vidx], scenes |-> <<>>])
    /\ vidx' = vidx + 1
    /\ apc' = "loop"
    /\ UNCHANGED <<xvars, cvars, fs, rvars, video_paths, aresult>>

\* Lines 95-101: the awaited analysis ends; an exception is logged and the
\* loop goes on.
AnalyzeFinish ==
    /\ apc = "awaiting"
    /\ \E outcome \in AnalysisOutcomes :
         /\ alog' = [alog EXCEPT ![Len(alog)] = outcome]
         /\ video_analyses' =
               IF outcome = "ok"
               THEN DictSet(video_analyses, video_paths[vidx], Analysis(video_paths[vidx]))
               ELSE video_analyses
    /\ vidx' = vidx + 1
    /\ apc' = "loop"
    /\ UNCHANGED <<xvars, cvars, fs, rvars, video_paths, aresult>>

\* Lines 103-104.
AnalyzeReturn ==
    /\ apc = "loop"
    /\ vidx > Len(video_paths)
    /\ aresult' = Returned(video_analyses)
    /\ apc' = "done"
    /\ UNCHANGED <<xvars, cvars, fs, rvars, video_paths, vidx, video_analyses, alog>>

AnalyzeStep ==
    \/ AnalyzeSkip
    \/ AnalyzeStart
    \/ AnalyzeFinish
    \/ AnalyzeReturn


\* ---------------------------------------------------------- render_video
\* State of a coroutine that has not been called.
RenderIdle ==
    /\ rpc = "idle"
    /\ edl = <<>>
    /\ audio_path = None
    /\ output_path = None
    /\ temp_dir = None
    /\ dirs = {}
    /\ i = 0
    /\ intermediate_clips = <<>>
    /\ concat_list = None
    /\ calls = <<>>
    /\ pending = NoResult
    /\ rresult = NoResult
    /\ cleanup = None

\* render_video(edl, audio_path, output_path) is called.
RenderCall(e, audio, out) ==
    /\ rpc' = "entry"
    /\ edl' = e
    /\ audio_path' = audio
    /\ output_path' = out
    /\ temp_dir' = None
    /\ dirs' = {}
    /\ i' = 0
    /\ intermediate_clips' = <<>>
    /\ concat_list' = None
    /\ calls' = <<>>
    /\ pending' = NoResult
    /\ rresult' = NoResult
    /\ cleanup' = None

\* Leave the try block with `p` (a return value or an exception).
LeaveTry(p) ==
    /\ rpc' = "finally"
    /\ pending' = p

\* Mutant: the workspace is made before the audio file is looked for.
RenderEnterAudioInsideTry ==
    /\ rpc = "entry"
    /\ \E made \in BOOLEAN :
         IF made
         THEN /\ temp_dir' = Workspace
              /\ dirs' = dirs \cup {Workspace}
              /\ IF ~Exists(audio_path)
                 THEN /\ LeaveTry(Raised("FileNotFoundError", "Audio file not found"))
                      /\ UNCHANGED <<i, rresult>>
                 ELSE /\ i' = 1
                      /\ rpc' = "loop"
                      /\ UNCHANGED <<pending, rresult>>
         ELSE /\ LeaveTry(Raised("OSError", "mkdtemp"))
              /\ UNCHANGED <<temp_dir, dirs, i, rresult>>
    /\ UNCHANGED <<xvars, cvars, avars, fs, edl, audio_path, output_path, intermediate_clips,
                   concat_list, calls, cleanup>>

\* Lines 69-83: the audio check, then mkdtemp inside the try.
RenderEnter ==
    /\ rpc = "entry"
    /\ IF ~Exists(audio_path)
       THEN /\ rpc' = "done"
            /\ rresult' = Raised("FileNotFoundError", "Audio file not found")
            /\ UNCHANGED <<temp_dir, dirs, i, pending>>
       ELSE \E made \in BOOLEAN :
              IF made
              THEN /\ temp_dir' = Workspace
                   /\ dirs' = dirs \cup {Workspace}
                   /\ i' = 1
                   /\ rpc' = "loop"
                   /\ UNCHANGED <<pending, rresult>>
              ELSE /\ LeaveTry(Raised("OSError", "mkdtemp"))
                   /\ UNCHANGED <<temp_dir, dirs, i, rresult>>
    /\ UNCHANGED <<xvars, cvars, avars, fs, edl, audio_path, output_path, intermediate_clips,
                   concat_list, calls, cleanup>>

\* Mutant: a missing input video aborts the job.
StageSkipFatal ==
    /\ rpc = "loop"
    /\ i <= Len(edl)
    /\ HasVideoPath(edl[i])
    /\ SourceMissing(edl[i])
    /\ LeaveTry(Raised("FileNotFoundError", "Input video not found"))
    /\ UNCHANGED <<xvars, cvars, avars, fs, edl, audio_path, output_path, temp_dir, dirs, i,
                   intermediate_clips, concat_list, calls, rresult, cleanup>>

\* Lines 87-91: a shot whose input video does not exist is skipped.
StageSkip ==
    /\ rpc = "loop"
    /\ i <= Len(edl)
    /\ HasVideoPath(edl[i])
    /\ SourceMissing(edl[i])
    /\ i' = i + 1
    /\ UNCHANGED <<xvars, cvars, avars, fs, rpc, edl, audio_path, output_path, temp_dir, dirs,
                   intermediate_clips, concat_list, calls, pending, rresult, cleanup>>

\* Lines 93-133: the command is built and handed to asyncio.to_thread.
StageStart ==
    /\ rpc = "loop"
    /\ i <= Len(edl)
    /\ HasVideoPath(edl[i])
    /\ ~SourceMissing(edl[i])
    /\ calls' = Append(calls, StageCommand(temp_dir, i, edl[i]))
    /\ rpc' = "staging"
    /\ UNCHANGED <<xvars, cvars, avars, fs, edl, audio_path, output_path, temp_dir, dirs, i,
                   intermediate_clips, concat_list, pending, rresult, cleanup>>

\* Mutant: the finished clip is put in front of the list.
StageFinishPrepend ==
    /\ rpc = "staging"
    /\ \E outcome \in ToolOutcomes :
         /\ calls' = Finish(outcome)
         /\ IF outcome = "ok"
            THEN /\ intermediate_clips' = <<ClipPath(temp_dir, i)>> \o intermediate_clips
                 /\ i' = i + 1
                 /\ rpc' = "loop"
                 /\ UNCHANGED pending
            ELSE /\ LeaveTry(ToolFailure("stage", outcome))
                 /\ UNCHANGED <<intermediate_clips, i>>
    /\ UNCHANGED <<xvars, cvars, avars, fs, edl, audio_path, output_path, temp_dir, dirs,
                   concat_list, rresult, cleanup>>

\* Lines 134-141: the awaited subprocess.run of the shot ends.
StageFinish ==
    /\ rpc = "staging"
    /\ \E outcome \in ToolOutcomes :
         /\ calls' = Finish(outcome)
         /\ IF outcome = "ok"
            THEN /\ intermediate_clips' = Append(intermediate_clips, ClipPath(temp_dir, i))
                 /\ i' = i + 1
                 /\ rpc' = "loop"
                 /\ UNCHANGED pending
            ELSE /\ LeaveTry(ToolFailure("stage", outcome))
                 /\ UNCHANGED <<intermediate_clips, i>>
    /\ UNCHANGED <<xvars, cvars, avars, fs, edl, audio_path, output_path, temp_dir, dirs,
                   concat_list, rresult, cleanup>>

\* Mutant: an empty clip list is concatenated like any other.
ConcatStartNoCheck ==
    /\ rpc = "loop"
    /\ i > Len(edl)
    /\ concat_list' = intermediate_clips
    /\ calls' = Append(calls, ConcatCommand(temp_dir))
    /\ rpc' = "concat"
    /\ UNCHANGED <<xvars, cvars, avars, fs, edl, audio_path, output_path, temp_dir, dirs, i,
                   intermediate_clips, rresult, cleanup, pending>>

\* Lines 143-173: after the loop: no clips -> ValueError; else the join list
\* is written and the concatenation is handed to asyncio.to_thread.
ConcatStart ==
    /\ rpc = "loop"
    /\ i > Len(edl)
    /\ IF intermediate_clips = <<>>
       THEN /\ LeaveTry(Raised("ValueError", "No valid video clips to concatenate"))
            /\ UNCHANGED <<concat_list, calls>>
       ELSE \E written \in BOOLEAN :
              IF written
              THEN /\ concat_list' = intermediate_clips
                   /\ calls' = Append(calls, ConcatCommand(temp_dir))
                   /\ rpc' = "concat"
                   /\ UNCHANGED pending
              ELSE /\ LeaveTry(Raised("OSError", "open concat_list.txt"))
                   /\ UNCHANGED <<concat_list, calls>>
    /\ UNCHANGED <<xvars, cvars, avars, fs, edl, audio_path, output_path, temp_dir, dirs, i,
                   intermediate_clips, rresult, cleanup>>

\* Mutant: the mux is started whatever the concatenation did.
ConcatFinishIgnoresFailure ==
    /\ rpc = "concat"
    /\ \E outcome \in ToolOutcomes :
         /\ calls' = Append(Finish(outcome),
                            FinalCommand(temp_dir, audio_path, output_path))
         /\ rpc' = "mux"
         /\ UNCHANGED pending
    /\ UNCHANGED <<xvars, cvars, avars, fs, edl, audio_path, output_path, temp_dir, dirs, i,
                   intermediate_clips, concat_list, rresult, cleanup>>

\* Lines 174-204: the concatenation ends; on success the mux is started.
ConcatFinish ==
    /\ rpc = "concat"
    /\ \E outcome \in ToolOutcomes :
         IF outcome = "ok"
         THEN /\ calls' = Append(Finish(outcome),
                                 FinalCommand(temp_dir, audio_path, output_path))
              /\ rpc' = "mux"
              /\ UNCHANGED pending
         ELSE /\ calls' = Finish(outcome)
              /\ LeaveTry(ToolFailure("concat", outcome))
    /\ UNCHANGED <<xvars, cvars, avars, fs, edl, audio_path, output_path, temp_dir, dirs, i,
                   intermediate_clips, concat_list, rresult, cleanup>>

\* Lines 205-212: the mux ends.
MuxFinish ==
    /\ rpc = "mux"
    /\ \E outcome \in ToolOutcomes :
         /\ calls' = Finish(outcome)
         /\ IF outcome = "ok"
            THEN LeaveTry(Returned(output_path))
            ELSE LeaveTry(ToolFailure("mux", outcome))
    /\ UNCHANGED <<xvars, cvars, avars, fs, edl, audio_path, output_path, temp_dir, dirs, i,
                   intermediate_clips, concat_list, rresult, cleanup>>

\* Mutant: the directory is removed only when the try block returned.
CleanupOnSuccessOnly ==
    /\ rpc = "finally"
    /\ IF temp_dir # None /\ temp_dir \in dirs /\ pending.kind = "return"
       THEN \E removed \in BOOLEAN :
              IF removed
              THEN /\ dirs' = dirs \ {temp_dir}
                   /\ cleanup' = "removed"
              ELSE /\ dirs' = dirs
                   /\ cleanup' = "rmtree_failed"
       ELSE /\ dirs' = dirs
            /\ cleanup' = "nothing"
    /\ rresult' = pending
    /\ rpc' = "done"
    /\ UNCHANGED <<xvars, cvars, avars, fs, edl, audio_path, output_path, temp_dir, i,
                   intermediate_clips, concat_list, calls, pending>>

\* Mutant: the OSError of a failed shutil.rmtree leaves the finally block.
CleanupRaisesOnFailure ==
    /\ rpc = "finally"
    /\ IF temp_dir # None /\ temp_dir \in dirs
       THEN \E removed \in BOOLEAN :
              IF removed
              THEN /\ dirs' = dirs \ {temp_dir}
                   /\ cleanup' = "removed"
                   /\ rresult' = pending
              ELSE /\ dirs' = dirs
                   /\ cleanup' = "rmtree_failed"
                   /\ rresult' = Raised("OSError", "rmtree")
       ELSE /\ dirs' = dirs
            /\ cleanup' = "nothing"
            /\ rresult' = pending
    /\ rpc' = "done"
    /\ UNCHANGED <<xvars, cvars, avars, fs, edl, audio_path, output_path, temp_dir, i,
                   intermediate_clips, concat_list, calls, pending>>

\* Lines 214-221: the finally block; shutil.rmtree may fail with OSError,
\* which is logged and not raised.
Cleanup ==
    /\ rpc = "finally"
    /\ IF temp_dir # None /\ temp_dir \in dirs
       THEN \E removed \in BOOLEAN :
              IF removed
              THEN /\ dirs' = dirs \ {temp_dir}
                   /\ cleanup' = "removed"
              ELSE /\ dirs' = dirs
                   /\ cleanup' = "rmtree_failed"
       ELSE /\ dirs' = dirs
            /\ cleanup' = "nothing"
    /\ rresult' = pending
    /\ rpc' = "done"
    /\ UNCHANGED <<xvars, cvars, avars, fs, edl, audio_path, output_path, temp_dir, i,
                   intermediate_clips, concat_list, calls, pending>>

\* Line 88 on a shot that has no video_path attribute: AttributeError, which
\* no handler of render_video catches.
StageNoAttribute ==
    /\ rpc = "loop"
    /\ i <= Len(edl)
    /\ ~HasVideoPath(edl[i])
    /\ LeaveTry(Raised("AttributeError", "Shot object has no attribute video_path"))
    /\ UNCHANGED <<xvars, cvars, avars, fs, edl, audio_path, output_path, temp_dir, dirs, i,
                   intermediate_clips, concat_list, calls, rresult, cleanup>>

RenderStep ==
    \/ RenderEnter
    \/ StageSkip
    \/ StageStart
    \/ StageFinish
    \/ ConcatStart
    \/ ConcatFinish
    \/ MuxFinish
    \/ Cleanup

\* ------------------------------------------------- start_video_generation
\* Path.suffix
Suffix(p) ==
    CASE p = "a.wav" -> ".wav"
      [] p = "b.MP3" -> ".MP3"
      [] p = "v1.mp4" -> ".mp4"
      [] p = "v2.mov" -> ".mov"
      [] p = "v3.mp4" -> ".mp4"
      [] p = "n.txt" -> ".txt"

\* Mutant: the suffix is compared as it is written.
LowerIdentity(x) == x

\* str.lower on a suffix
Lower(x) == IF x = ".MP3" THEN ".mp3" ELSE x

\* Mutant: the existence of a path is checked only once its extension is known
\* to be supported.
RECURSIVE ClassifySupportedOnly(_, _, _, _)
ClassifySupportedOnly(paths, k, audio, videos) ==
    IF k > Len(paths)
    THEN [error |-> NoResult, audio |-> audio, videos |-> videos]
    ELSE LET p == paths[k]
             suffix == Lower(Suffix(p))
         IN  IF suffix \notin {".mp3", ".wav", ".mp4", ".mov"}
             THEN ClassifySupportedOnly(paths, k + 1, audio, videos)
             ELSE IF ~Exists(p)
                  THEN [error |-> Raised("FileNotFoundError", "Input file does not exist"),
                        audio |-> audio, videos |-> videos]
                  ELSE IF suffix \in {".mp3", ".wav"}
                       THEN ClassifySupportedOnly(paths, k + 1,
                                                  IF audio # None THEN audio ELSE p, videos)
                       ELSE ClassifySupportedOnly(paths, k + 1, audio, Append(videos, p))

\* Mutant: a later audio file replaces the one found before it.
RECURSIVE ClassifyKeepsLastAudio(_, _, _, _)
ClassifyKeepsLastAudio(paths, k, audio, videos) ==
    IF k > Len(paths)
    THEN [error |-> NoResult, audio |-> audio, videos |-> videos]
    ELSE LET p == paths[k]
             suffix == Lower(Suffix(p))
         IN  IF ~Exists(p)
             THEN [error |-> Raised("FileNotFoundError", "Input file does not exist"),
                   audio |-> audio, videos |-> videos]
             ELSE IF suffix \in {".mp3", ".wav"}
                  THEN ClassifyKeepsLastAudio(paths, k + 1, p, videos)
                  ELSE IF suffix \in {".mp4", ".mov"}
                       THEN ClassifyKeepsLastAudio(paths, k + 1, audio, Append(videos, p))
                       ELSE ClassifyKeepsLastAudio(paths, k + 1, audio, videos)

\* Lines 57-71: the classification loop from index k on.
RECURSIVE Classify(_, _, _, _)
Classify(paths, k, audio, videos) ==
    IF k > Len(paths)
    THEN [error |-> NoResult, audio |-> audio, videos |-> videos]
    ELSE LET p == paths[k]
             suffix == Lower(Suffix(p))
         IN  IF ~Exists(p)
             THEN [error |-> Raised("FileNotFoundError", "Input file does not exist"),
                   audio |-> audio, videos |-> videos]
             ELSE IF suffix \in {".mp3", ".wav"}
                  THEN Classify(paths, k + 1, IF audio # None THEN audio ELSE p, videos)
                  ELSE IF suffix \in {".mp4", ".mov"}
                       THEN Classify(paths, k + 1, audio, Append(videos, p))
                       ELSE Classify(paths, k + 1, audio, videos)

\* Mutant: the videos are looked for before the audio file.
IdentifyVideoFirst(paths) ==
    LET c == Classify(paths, 1, None, <<>>)
    IN  IF c.error # NoResult THEN c
        ELSE IF c.videos = <<>>
             THEN [c EXCEPT !.error = Raised("ValueError", "No video files found")]
             ELSE IF c.audio = None
                  THEN [c EXCEPT !.error = Raised("ValueError", "No audio file found")]
                  ELSE c

\* Mutant: a list without a video is not rejected.
IdentifyNoVideoCheck(paths) ==
    LET c == Classify(paths, 1, None, <<>>)
    IN  IF c.error # NoResult THEN c
        ELSE IF c.audio = None
             THEN [c EXCEPT !.error = Raised("ValueError", "No audio file found")]
             ELSE c

\* Lines 55-76: the loop, then the two checks.
Identify(paths) ==
    LET c == Classify(paths, 1, None, <<>>)
    IN  IF c.error # NoResult THEN c
        ELSE IF c.audio = None
             THEN [c EXCEPT !.error = Raised("ValueError", "No audio file found")]
             ELSE IF c.videos = <<>>
                  THEN [c EXCEPT !.error = Raised("ValueError", "No video files found")]
                  ELSE c

\* Lines 110-118: what the two handlers emit for an exception.
FailureMessage(e) ==
    IF e.type \in {"FileNotFoundError", "ValueError"}
    THEN [kind |-> "Input Error", text |-> e.msg]
    ELSE [kind |-> "unexpected error", text |-> e.msg]

NoPayload == [kind |-> None, text |-> None]

\* No answer of the generative model yet.
NoResponse == [kind |-> None, shots |-> <<>>]

Emit(name, payload) == Append(signals, [signal |-> name, payload |-> payload])

\* analyze_audio, lines 45-67: the AudioAnalysis each return builds.
EmptyAudio == [beats |-> <<>>, duration |-> 0]
SimulatedAudio == [beats |-> [k \in 1..30 |-> 2 * (k - 1)], duration |-> 60]

\* Mutant: a missing audio file leaves analyze_audio as an exception.
AnalyzeAudioRaises(path, outcome) ==
    IF outcome = "ok" THEN Returned(SimulatedAudio)
    ELSE Raised("FileNotFoundError", "Audio file not found")

\* analyze_audio, lines 45-67, by which return ran.
AnalyzeAudio(path, outcome) ==
    IF outcome = "ok" THEN Returned(SimulatedAudio) ELSE Returned(EmptyAudio)

\* The returns analyze_audio can take for a path.
AudioOutcomes(path) == IF ~IsFile(path) THEN {"missing"} ELSE {"ok", "error"}

ControllerIdle ==
    /\ cpc = "idle"
    /\ file_paths = <<>>
    /\ audio_file_path = None
    /\ video_file_paths = <<>>
    /\ signals = <<>>
    /\ audio_outcome = None
    /\ audio_analysis = None
    /\ requests = 0
    /\ response = NoResponse
    /\ plan = NoResult

\* Mutant: a handler logs the exception and emits nothing.
FailSilently(e) ==
    /\ signals' = signals
    /\ cpc' = "finished"

\* Leave the coroutine through one of the two handlers.
Fail(e) ==
    /\ signals' = Emit("generation_finished", FailureMessage(e))
    /\ cpc' = "finished"

\* Lines 48-79: generation_started, then the input files are identified.
CtlStart ==
    /\ cpc = "start"
    /\ LET c == Identify(file_paths)
       IN  IF c.error # NoResult
           THEN /\ signals' = Append(Emit("generation_started", NoPayload),
                                     [signal |-> "generation_finished",
                                      payload |-> FailureMessage(c.error)])
                /\ cpc' = "finished"
                /\ UNCHANGED <<audio_file_path, video_file_paths>>
           ELSE /\ signals' = Emit("generation_started", NoPayload)
                /\ audio_file_path' = c.audio
                /\ video_file_paths' = c.videos
                /\ cpc' = "audio"
    /\ UNCHANGED <<xvars, fs, rvars, avars, file_paths, audio_outcome, audio_analysis,
                   requests, response, plan>>

\* Lines 81-89: analyze_audio is awaited, then analyze_videos is called.
CtlAudio ==
    /\ cpc = "audio"
    /\ \E outcome \in AudioOutcomes(audio_file_path) :
         LET r == AnalyzeAudio(audio_file_path, outcome)
         IN  /\ audio_outcome' = outcome
             /\ IF r.kind = "return"
                THEN /\ audio_analysis' = r.msg
                     /\ AnalyzeCall(video_file_paths)
                     /\ cpc' = "videos"
                     /\ UNCHANGED signals
                ELSE /\ Fail(r)
                     /\ UNCHANGED <<audio_analysis, avars>>
    /\ UNCHANGED <<xvars, fs, rvars, file_paths, audio_file_path, video_file_paths,
                   requests, response, plan>>

\* models/editing.py: the fields of a Shot the response must carry.  The times
\* are floats with no constraint on either; transition_to_next has a default
\* and text_overlay is optional.
PlanShot(v, start, end) ==
    [source_video |-> v, start_time |-> start, end_time |-> end, text_overlay |-> None]

\* One shot of each video with 0 <= start_time < end_time, and one that starts
\* before 0 and ends where it starts.
PlanShots ==
    {PlanShot(v, 0, 1) : v \in VideoPaths} \cup {PlanShot("v1.mp4", 0 - 1, 0 - 1)}

\* EditDecisionList.shots: List[Shot], of any length.
PlanEDLs == SeqsUpTo(PlanShots, MaxPlanShots)

\* What the generative model may answer to one request: the call raises, the
\* text is empty once the code fence is stripped, the text is not JSON, the
\* JSON does not validate as an EditDecisionList (a field is missing or has the
\* wrong type), or it validates.
PlanFailures == {"transport_error", "empty", "not_json", "invalid"}

Responses ==
    {[kind |-> f, shots |-> <<>>] : f \in PlanFailures}
        \cup {[kind |-> "edl", shots |-> e] : e \in PlanEDLs}

\* components/ai_client.py lines 151-171: how a failed response leaves.
PlanError(failure) ==
    IF failure \in {"not_json", "invalid"}
    THEN Raised("RuntimeError", "AI response for EDL was not valid")
    ELSE Raised("RuntimeError", "EDL generation failed unexpectedly")

\* Lines 89-98, create_edit_plan and generate_edit_decision_list lines 123-155:
\* analyze_videos has returned; the prompt is built from the analyses, whatever
\* they are, and sent to the model.
CtlPlanRequest ==
    /\ cpc = "videos"
    /\ apc = "done"
    /\ IF aresult.kind = "return"
       THEN /\ requests' = requests + 1
            /\ cpc' = "planning"
            /\ UNCHANGED signals
       ELSE /\ Fail(aresult)
            /\ UNCHANGED requests
    /\ UNCHANGED <<xvars, fs, rvars, avars, file_paths, audio_file_path, video_file_paths,
                   audio_outcome, audio_analysis, response, plan>>

\* Mutant: an unusable answer is asked for again, once.
CtlPlanResponseRetries ==
    /\ cpc = "planning"
    /\ \E r \in Responses :
         /\ response' = r
         /\ IF r.kind \in {"empty", "not_json", "invalid"} /\ requests < 2
            THEN /\ requests' = requests + 1
                 /\ UNCHANGED <<plan, cpc, signals, rvars>>
            ELSE /\ UNCHANGED requests
                 /\ IF r.kind \in PlanFailures
                    THEN /\ plan' = PlanError(r.kind)
                         /\ Fail(PlanError(r.kind))
                         /\ UNCHANGED rvars
                    ELSE /\ plan' = Returned(r.shots)
                         /\ RenderCall(r.shots, audio_file_path, "output.mp4")
                         /\ cpc' = "render"
                         /\ UNCHANGED signals
    /\ UNCHANGED <<xvars, fs, avars, file_paths, audio_file_path, video_file_paths,
                   audio_outcome, audio_analysis>>

\* Mutant: a failed plan is rendered as an empty one.
CtlPlanResponseRendersAnyway ==
    /\ cpc = "planning"
    /\ \E r \in Responses :
         /\ response' = r
         /\ plan' = IF r.kind \in PlanFailures THEN PlanError(r.kind) ELSE Returned(r.shots)
         /\ RenderCall(r.shots, audio_file_path, "output.mp4")
         /\ cpc' = "render"
         /\ UNCHANGED signals
    /\ UNCHANGED <<xvars, fs, avars, file_paths, audio_file_path, video_file_paths,
                   audio_outcome, audio_analysis, requests>>

\* Lines 98-104: the model has answered; a plan goes to render_video.
CtlPlanResponse ==
    /\ cpc = "planning"
    /\ \E r \in Responses :
         /\ response' = r
         /\ IF r.kind \in PlanFailures
            THEN /\ plan' = PlanError(r.kind)
                 /\ Fail(PlanError(r.kind))
                 /\ UNCHANGED rvars
            ELSE /\ plan' = Returned(r.shots)
                 /\ RenderCall(r.shots, audio_file_path, "output.mp4")
                 /\ cpc' = "render"
                 /\ UNCHANGED signals
    /\ UNCHANGED <<xvars, fs, avars, file_paths, audio_file_path, video_file_paths,
                   audio_outcome, audio_analysis, requests>>

\* Lines 104-118: render_video has returned or raised.
CtlRenderDone ==
    /\ cpc = "render"
    /\ rpc = "done"
    /\ IF rresult.kind = "return"
       THEN /\ signals' = Emit("generation_finished", [kind |-> "path", text |-> rresult.msg])
            /\ cpc' = "finished"
       ELSE Fail(rresult)
    /\ UNCHANGED <<xvars, fs, rvars, avars, file_paths, audio_file_path, video_file_paths,
                   audio_outcome, audio_analysis, requests, response, plan>>

CtlStep ==
    \/ CtlStart
    \/ CtlAudio
    \/ CtlPlanRequest
    \/ CtlPlanResponse
    \/ CtlRenderDone

\* ------------------------------------------------------ one pipeline run
Init ==
    /\ file_paths \in SeqsUpTo(InputPaths, MaxFiles)
    /\ fs \in [AllPaths -> Kinds]
    /\ \A p \in AllPaths : (\A k \in DOMAIN file_paths : file_paths[k] # p) => fs[p] = "absent"
    /\ cpc = "start"
    /\ audio_file_path = None
    /\ video_file_paths = <<>>
    /\ signals = <<>>
    /\ audio_outcome = None
    /\ audio_analysis = None
    /\ requests = 0
    /\ response = NoResponse
    /\ plan = NoResult
    /\ AnalysisIdle
    /\ RenderIdle
    /\ ComponentsIdle

\* The plans of the planner are momentum.models.editing shots: of render_video
\* only the steps such a plan can take are steps of a run.
Next ==
    \/ CtlStep
    \/ AnalyzeStep
    \/ RenderEnter
    \/ StageNoAttribute
    \/ ConcatStart
    \/ Cleanup

Spec == Init /\ [][Next]_vars

\* ------------------------------------------- render_video called directly
EDLs == SeqsUpTo(Shots, MaxShots)

InitRender ==
    /\ fs \in [AllPaths -> {"absent", "file"}]
    /\ \A p \in AllPaths \ (VideoPaths \cup {AudioPath}) : fs[p] = "absent"
    /\ rpc = "entry"
    /\ edl \in EDLs
    /\ audio_path = AudioPath
    /\ output_path = "output.mp4"
    /\ temp_dir = None
    /\ dirs = {}
    /\ i = 0
    /\ intermediate_clips = <<>>
    /\ concat_list = None
    /\ calls = <<>>
    /\ pending = NoResult
    /\ rresult = NoResult
    /\ cleanup = None
    /\ AnalysisIdle
    /\ ControllerIdle
    /\ ComponentsIdle

SpecRender == InitRender /\ [][RenderStep]_vars


\* ------------------------------------ render_video cancelled while it waits
\* The task running render_video is cancelled while it awaits
\* asyncio.to_thread(subprocess.run, ...): CancelledError is raised at the
\* await, is not an Exception, so no handler of lines 136-141, 175-180 or
\* 207-212 takes it, and the finally block runs.  The worker thread is not
\* interrupted: its subprocess.run goes on.
Cancel ==
    /\ rpc \in {"staging", "concat", "mux"}
    /\ LeaveTry(Raised("CancelledError", "cancelled"))
    /\ UNCHANGED <<xvars, cvars, avars, fs, edl, audio_path, output_path, temp_dir, dirs, i,
                   intermediate_clips, concat_list, calls, rresult, cleanup>>

\* The subprocess.run of the abandoned worker thread ends, whatever became of
\* the coroutine that had been waiting for it.
ThreadFinish ==
    /\ rpc \in {"finally", "done"}
    /\ Running # {}
    /\ \E outcome \in ToolOutcomes : calls' = Finish(outcome)
    /\ UNCHANGED <<xvars, cvars, avars, fs, rpc, edl, audio_path, output_path, temp_dir, dirs, i,
                   intermediate_clips, concat_list, pending, rresult, cleanup>>

SpecCancel == InitRender /\ [][RenderStep \/ Cancel \/ ThreadFinish]_vars

\* ------------------------------- an EditorService from its construction on
\* __init__, lines 29-44: `ffmpeg -version` is run once; a non-zero exit and a
\* failure to launch both end the construction with RuntimeError.
Construct ==
    /\ service.state = "new"
    /\ \E outcome \in ToolOutcomes :
         service' = [state |-> IF outcome = "ok" THEN "ready" ELSE "failed",
                     checks |-> service.checks + 1,
                     error |-> IF outcome = "ok" THEN NoResult
                               ELSE Raised("RuntimeError", "FFmpeg is required but not found")]
    /\ UNCHANGED <<gvars, fs, rvars, avars, cvars, jobs, workspaces, pvars>>

\* Mutant: render_video looks for the tool again when it is called.
RenderBeginChecksAgain ==
    /\ service.state = "ready"
    /\ \/ rpc = "idle" /\ \E e \in EDLs : RenderCall(e, AudioPath, "output.mp4")
       \/ rpc = "done" /\ RenderCall(edl, AudioPath, "output.mp4")
    /\ service' = [service EXCEPT !.checks = @ + 1]
    /\ UNCHANGED <<gvars, fs, avars, cvars, jobs, workspaces, pvars>>

\* render_video is called on the constructed service: with any plan the first
\* time, and with the same plan again after a call has ended; lines 46-76 run
\* no check of the tool.
RenderBegin ==
    /\ service.state = "ready"
    /\ \/ rpc = "idle" /\ \E e \in EDLs : RenderCall(e, AudioPath, "output.mp4")
       \/ rpc = "done" /\ RenderCall(edl, AudioPath, "output.mp4")
    /\ UNCHANGED <<xvars, fs, avars, cvars>>

InitService ==
    /\ fs \in [AllPaths -> {"absent", "file"}]
    /\ \A p \in AllPaths \ (VideoPaths \cup {AudioPath}) : fs[p] = "absent"
    /\ ComponentsIdle
    /\ RenderIdle
    /\ AnalysisIdle
    /\ ControllerIdle

SpecService == InitService /\ [][Construct \/ RenderBegin \/ RenderStep]_vars

\* ------------------------------------------- concurrent render_video calls
\* Each call keeps its temp_dir in a local variable; the calls interleave at
\* their await points.
JobLive(j) == jobs[j].pc \in {"working", "finally"} /\ jobs[j].temp_dir # 0

\* Lines 70-74: the call begins; a missing audio file ends it before the try.
JobCall(j) ==
    /\ jobs[j].pc = "idle"
    /\ jobs' = [jobs EXCEPT ![j] =
                  IF fs[AudioPath] = "absent"
                  THEN [@ EXCEPT !.pc = "done",
                                 !.result = Raised("FileNotFoundError", "audio")]
                  ELSE [@ EXCEPT !.pc = "try"]]
    /\ UNCHANGED <<gvars, fs, rvars, avars, cvars, service, workspaces, pvars>>

\* Mutant: the workspace is a directory of a fixed name, made if it is absent.
JobMkdtempFixedName(j) ==
    /\ jobs[j].pc = "try"
    /\ \/ /\ jobs' = [jobs EXCEPT ![j] = [@ EXCEPT !.pc = "working", !.temp_dir = 1]]
          /\ workspaces' = [workspaces EXCEPT ![1] = j]
       \/ /\ jobs' = [jobs EXCEPT ![j] =
                        [@ EXCEPT !.pc = "finally", !.result = Raised("OSError", "mkdtemp")]]
          /\ UNCHANGED workspaces
    /\ UNCHANGED <<gvars, fs, rvars, avars, cvars, service, pvars>>

\* Line 81: tempfile.mkdtemp creates a directory of a name that does not exist
\* yet, or fails; temp_dir is bound only when it returns.
JobMkdtemp(j) ==
    /\ jobs[j].pc = "try"
    /\ \/ \E n \in TempNames :
            /\ workspaces[n] = 0
            /\ jobs' = [jobs EXCEPT ![j] = [@ EXCEPT !.pc = "working", !.temp_dir = n]]
            /\ workspaces' = [workspaces EXCEPT ![n] = j]
       \/ /\ jobs' = [jobs EXCEPT ![j] =
                        [@ EXCEPT !.pc = "finally", !.result = Raised("OSError", "mkdtemp")]]
          /\ UNCHANGED workspaces
    /\ UNCHANGED <<gvars, fs, rvars, avars, cvars, service, pvars>>

\* Lines 86-212: the call is suspended in one of its awaits; the invocation
\* ends well and the call goes on, or the try block is left with an error.
JobAwait(j) ==
    /\ jobs[j].pc = "working"
    /\ \E outcome \in ToolOutcomes :
         jobs' = [jobs EXCEPT ![j] =
                    IF outcome # "ok"
                    THEN [@ EXCEPT !.pc = "finally", !.result = Raised("RuntimeError", outcome)]
                    ELSE IF @.stage + 1 = JobStages
                    THEN [@ EXCEPT !.pc = "finally", !.stage = JobStages,
                                   !.result = Returned("output.mp4")]
                    ELSE [@ EXCEPT !.stage = @ + 1]]
    /\ UNCHANGED <<gvars, fs, rvars, avars, cvars, service, workspaces, pvars>>

\* Lines 214-221: the finally block removes the directory named by the call's
\* own temp_dir, if it is bound and exists; a failure to remove is only logged.
JobCleanup(j) ==
    /\ jobs[j].pc = "finally"
    /\ jobs' = [jobs EXCEPT ![j] = [@ EXCEPT !.pc = "done"]]
    /\ IF jobs[j].temp_dir # 0 /\ workspaces[jobs[j].temp_dir] # 0
       THEN \/ workspaces' = [workspaces EXCEPT ![jobs[j].temp_dir] = 0]
            \/ UNCHANGED workspaces
       ELSE UNCHANGED workspaces
    /\ UNCHANGED <<gvars, fs, rvars, avars, cvars, service, pvars>>

InitJobs ==
    /\ fs \in [AllPaths -> {"absent", "file"}]
    /\ \A p \in AllPaths \ {AudioPath} : fs[p] = "absent"
    /\ ComponentsIdle
    /\ RenderIdle
    /\ AnalysisIdle
    /\ ControllerIdle

JobStep ==
    \E j \in JobIds : JobCall(j) \/ JobMkdtemp(j) \/ JobAwait(j) \/ JobCleanup(j)

SpecJobs == InitJobs /\ [][JobStep]_vars

\* ------------------------------------------- an EDL to JSON and back again
\* JSON values, by their type in the text.
JNull == [t |-> "null"]
JStr(x) == [t |-> "str", v |-> x]
JInt(n) == [t |-> "int", v |-> n]        \* a number written without a fraction: 1
JFloat(n) == [t |-> "float", v |-> n]    \* a number written with one: 1.0
JObj(o) == [t |-> "obj", v |-> o]

\* Optional[TextOverlay] in Python: None, or a TextOverlay.
Absent == [some |-> FALSE]
Some(x) == [some |-> TRUE, val |-> x]

\* TextOverlay(**d), models/editing.py 7-21: four required fields.
DecodeOverlay(d) ==
    [text |-> d["text"].v, font_size |-> d["font_size"].v,
     position |-> d["position"].v, style |-> d["style"].v]

\* Shot(**d), models/editing.py 23-46: a number of either form becomes a
\* float; a missing transition_to_next becomes "hard_cut"; a missing or null
\* text_overlay becomes None.
DecodeShot(d) ==
    [source_video |-> d["source_video"].v,
     start_time |-> d["start_time"].v,
     end_time |-> d["end_time"].v,
     transition_to_next |-> IF "transition_to_next" \in DOMAIN d
                            THEN d["transition_to_next"].v ELSE "hard_cut",
     text_overlay |-> IF "text_overlay" \in DOMAIN d /\ d["text_overlay"].t = "obj"
                      THEN Some(DecodeOverlay(d["text_overlay"].v)) ELSE Absent]

\* EditDecisionList(**json.loads(text)), ai_client.py line 163.
Decode(doc) == [k \in 1..Len(doc) |-> DecodeShot(doc[k])]

\* TextOverlay.model_dump() written by json.dumps: font_size is an int.
EncodeOverlay(o) ==
    [text |-> JStr(o.text), font_size |-> JInt(o.font_size),
     position |-> JStr(o.position), style |-> JStr(o.style)]

\* Mutant: the shot is written without its overlay.
EncodeShotWithoutOverlay(shot) ==
    [source_video |-> JStr(shot.source_video),
     start_time |-> JFloat(shot.start_time),
     end_time |-> JFloat(shot.end_time),
     transition_to_next |-> JStr(shot.transition_to_next),
     text_overlay |-> JNull]

\* Shot.model_dump() written by json.dumps: every field is written, a default
\* as its value, None as null, a float with its fraction.
EncodeShot(shot) ==
    [source_video |-> JStr(shot.source_video),
     start_time |-> JFloat(shot.start_time),
     end_time |-> JFloat(shot.end_time),
     transition_to_next |-> JStr(shot.transition_to_next),
     text_overlay |-> IF shot.text_overlay.some
                      THEN JObj(EncodeOverlay(shot.text_overlay.val)) ELSE JNull]

Encode(e) == [k \in 1..Len(e) |-> EncodeShot(e[k])]

\* What the generative model writes for one shot: the times with or without a
\* fraction, the transition left out or given, the overlay left out, null or
\* given.
OverlayDoc ==
    [text |-> JStr("hi"), font_size |-> JInt(48),
     position |-> JStr("bottom_center"), style |-> JStr("minimalist")]

NoField == [x \in {} |-> JNull]

ShotDocs ==
    {[source_video |-> JStr("v1.mp4"), start_time |-> start, end_time |-> end] @@ tr @@ ov :
        <<start, end>> \in {<<JInt(0), JInt(1)>>, <<JFloat(0), JFloat(1)>>},
        tr \in {NoField} \cup {"transition_to_next" :> JStr(x) : x \in {"hard_cut", "fade"}},
        ov \in {NoField} \cup {"text_overlay" :> x : x \in {JNull, JObj(OverlayDoc)}}}

EDLDocs == SeqsUpTo(ShotDocs, MaxPlanShots)

\* The planner turns the model's answer into an EditDecisionList.
CodecPlan ==
    /\ codec.pc = "idle"
    /\ \E doc \in EDLDocs :
         codec' = [codec EXCEPT !.pc = "planned", !.doc = doc, !.edl = Decode(doc)]
    /\ UNCHANGED <<gvars, fs, rvars, avars, cvars, service, jobs, workspaces,
                   detector, analyzer, extractor>>

CodecEncode ==
    /\ codec.pc = "planned"
    /\ codec' = [codec EXCEPT !.pc = "encoded", !.text = Encode(codec.edl)]
    /\ UNCHANGED <<gvars, fs, rvars, avars, cvars, service, jobs, workspaces,
                   detector, analyzer, extractor>>

CodecDecode ==
    /\ codec.pc = "encoded"
    /\ codec' = [codec EXCEPT !.pc = "decoded", !.back = Decode(codec.text)]
    /\ UNCHANGED <<gvars, fs, rvars, avars, cvars, service, jobs, workspaces,
                   detector, analyzer, extractor>>

\* A component is called with nothing else going on; the paths it is given
\* may be absent, a file or a directory.
InitComponents(paths) ==
    /\ fs \in [AllPaths -> Kinds]
    /\ \A p \in AllPaths \ paths : fs[p] = "absent"
    /\ ComponentsIdle
    /\ RenderIdle
    /\ AnalysisIdle
    /\ ControllerIdle

SpecCodec == InitComponents({}) /\ [][CodecPlan \/ CodecEncode \/ CodecDecode]_vars

\* ------------------------------------- the overlay text in the drawtext filter
\* A text is a sequence of characters over: the single quote, the backslash
\* and a letter.
Quote == "'"
Backslash == "\\"
Chars == {Quote, Backslash, "a"}

Texts == SeqsUpTo(Chars, MaxTextLen)

\* Line 113: the replacement "'\\''" is the four characters ' \ ' '
EscapeSequence == <<Quote, Backslash, Quote, Quote>>

\* Mutant: the text is embedded as it is.
EscapeNothing(text) == text

\* Line 113: shot.text_overlay.text.replace("'", "'\\''")
RECURSIVE Escape(_)
Escape(text) ==
    IF text = <<>> THEN <<>>
    ELSE (IF Head(text) = Quote THEN EscapeSequence ELSE <<Head(text)>>)
            \o Escape(Tail(text))

\* Line 111: a shot with an overlay of some text is being staged.
EscapeCall ==
    /\ escaper.pc = "idle"
    /\ \E text \in Texts \ {<<>>} :
         escaper' = [escaper EXCEPT !.pc = "text", !.text = text]
    /\ UNCHANGED <<fs, rvars, avars, cvars, service, jobs, workspaces, pvars, gui>>

\* Lines 113-119: escaped_text, as it stands between the quotes of text='...'
EscapeReplace ==
    /\ escaper.pc = "text"
    /\ escaper' = [escaper EXCEPT !.pc = "escaped", !.escaped = Escape(escaper.text)]
    /\ UNCHANGED <<fs, rvars, avars, cvars, service, jobs, workspaces, pvars, gui>>

SpecEscape == InitComponents({}) /\ [][EscapeCall \/ EscapeReplace]_vars

\* ------------------------------------------------------------- MainWindow
\* Line 109: the extensions dropEvent lets through.
DropExtensions == {".mp3", ".wav", ".mp4", ".mov", ".avi", ".mkv"}

Droppable(p) == Lower(Suffix(p)) \in DropExtensions

\* What the user drags onto the window: an audio file, a video, a text file.
DropUrls == {"a.wav", "v1.mp4", "n.txt"}

\* Lines 104-110: file_paths, for each list of urls a drop may carry.
DroppedLists == {SelectSeq(urls, Droppable) : urls \in SeqsUpTo(DropUrls, MaxFiles) \ {<<>>}}

\* Lines 100-130: dropEvent with local file urls, and _handle_files_dropped:
\* files with a known extension replace the loaded ones and enable the button.
DropEvent ==
    /\ \E dropped \in DroppedLists :
         gui' = IF dropped # <<>>
                THEN [gui EXCEPT !.dropped_file_paths = dropped,
                                 !.enabled = TRUE,
                                 !.status = Status("Media loaded", dropped, NoPayload)]
                ELSE [gui EXCEPT !.status =
                         Status("No valid audio/video files dropped.", <<>>, NoPayload)]
    /\ UNCHANGED <<fs, rvars, avars, cvars, service, jobs, workspaces, pvars, escaper>>

\* Lines 132-147: the slot of the button, which only an enabled button calls.
\* controller.start_video_generation(...) is an async def called without
\* await and without a task: the call makes a coroutine object that nothing
\* runs, so no statement of the controller executes.
OnGenerateClicked ==
    /\ gui.enabled
    /\ gui.coroutines < MaxClicks
    /\ gui' = IF gui.dropped_file_paths = <<>>
              THEN [gui EXCEPT !.status = Status("No files loaded.", <<>>, NoPayload)]
              ELSE [gui EXCEPT !.enabled = FALSE,
                               !.status = Status("Generating video...", <<>>, NoPayload),
                               !.coroutines = @ + 1]
    /\ UNCHANGED <<fs, rvars, avars, cvars, service, jobs, workspaces, pvars, escaper>>

SpecGui == InitComponents({}) /\ [][DropEvent \/ OnGenerateClicked]_vars

\* ------------------- the window's slots, with a run that some caller awaits
\* Lines 149-155: _on_generation_started.
OnGenerationStarted(g) ==
    [g EXCEPT !.status = Status("Generation process started by controller...", <<>>, NoPayload),
              !.enabled = FALSE]

\* Lines 157-163: _on_generation_finished(video_path).
OnGenerationFinished(g, payload) ==
    [g EXCEPT !.enabled = TRUE,
              !.status = Status("Video created successfully", <<>>, payload)]

\* controller.py lines 108, 113 and 118: what generation_finished carries.
FinishedPayloads ==
    {[kind |-> "path", text |-> "output.mp4"]}
        \cup {FailureMessage(e) : e \in {Raised("ValueError", "No audio file found"),
                                         Raised("FileNotFoundError", "Input file not found"),
                                         Raised("RuntimeError", "Failed to process video clip")}}

\* controller.py line 47: generation_started.emit() runs the connected slot.
RunStarted ==
    /\ cpc = "start"
    /\ signals' = Emit("generation_started", NoPayload)
    /\ cpc' = "audio"
    /\ gui' = OnGenerationStarted(gui)
    /\ UNCHANGED <<fs, rvars, avars, service, jobs, workspaces, pvars, escaper,
                   file_paths, audio_file_path, video_file_paths, audio_outcome,
                   audio_analysis, requests, response, plan>>

\* controller.py lines 108-118: generation_finished.emit(...) runs the slot.
RunFinished ==
    /\ cpc = "audio"
    /\ \E payload \in FinishedPayloads :
         /\ signals' = Emit("generation_finished", payload)
         /\ gui' = OnGenerationFinished(gui, payload)
    /\ cpc' = "finished"
    /\ UNCHANGED <<fs, rvars, avars, service, jobs, workspaces, pvars, escaper,
                   file_paths, audio_file_path, video_file_paths, audio_outcome,
                   audio_analysis, requests, response, plan>>

InitSlots ==
    /\ fs = [p \in AllPaths |-> "absent"]
    /\ ComponentsIdle
    /\ RenderIdle
    /\ AnalysisIdle
    /\ cpc = "start"
    /\ file_paths = <<>>
    /\ audio_file_path = None
    /\ video_file_paths = <<>>
    /\ signals = <<>>
    /\ audio_outcome = None
    /\ audio_analysis = None
    /\ requests = 0
    /\ response = NoResponse
    /\ plan = NoResult

SpecSlots ==
    InitSlots /\ [][DropEvent \/ OnGenerateClicked \/ RunStarted \/ RunFinished]_vars

\* ------------------------------------------- AudioProcessor.detect_beats
RECURSIVE Ascending(_)
Ascending(S) ==
    IF S = {} THEN <<>>
    ELSE LET m == CHOOSE x \in S : \A y \in S : x <= y
         IN  <<m>> \o Ascending(S \ {m})

\* beat_frames: frame indices in increasing order.
BeatFrameSeqs == {Ascending(S) : S \in SUBSET (0..MaxBeatFrame)}

\* tempo is a float in older librosa releases and a one-element array in newer
\* ones; f"{tempo:.2f}" raises TypeError for the array.
Tempos == {"scalar", "array"}

\* librosa.frames_to_time with hop_length 512 at 22050 Hz, in milliseconds.
FramesToTime(frame) == (frame * 512 * 1000) \div 22050

BeatTimes(frames) == [k \in 1..Len(frames) |-> FramesToTime(frames[k])]

\* Lines 63-65: except Exception logs and returns [].
Caught(where) ==
    detector' = [detector EXCEPT !.pc = "done", !.error = where, !.result = Returned(<<>>)]

\* Lines 38-42: no file at the path, [] is returned.
DetectCall ==
    /\ detector.pc = "idle"
    /\ detector' = IF IsFile(AudioPath)
                   THEN [detector EXCEPT !.pc = "load"]
                   ELSE [detector EXCEPT !.pc = "done", !.result = Returned(<<>>)]
    /\ UNCHANGED <<gvars, fs, rvars, avars, cvars, service, jobs, workspaces,
                   codec, analyzer, extractor>>

\* Mutant: an error of librosa.load leaves detect_beats.
DetectLoadPropagates ==
    /\ detector.pc = "load"
    /\ \/ detector' = [detector EXCEPT !.pc = "track"]
       \/ detector' = [detector EXCEPT !.pc = "done", !.error = "load",
                                       !.result = Raised("Exception", "load")]
    /\ UNCHANGED <<gvars, fs, rvars, avars, cvars, service, jobs, workspaces,
                   codec, analyzer, extractor>>

\* Line 47: librosa.load decodes the file or raises.
DetectLoad ==
    /\ detector.pc = "load"
    /\ \/ detector' = [detector EXCEPT !.pc = "track"]
       \/ Caught("load")
    /\ UNCHANGED <<gvars, fs, rvars, avars, cvars, service, jobs, workspaces,
                   codec, analyzer, extractor>>

\* Line 52: librosa.beat.beat_track gives a tempo and beat frames, or raises.
DetectTrack ==
    /\ detector.pc = "track"
    /\ \/ \E tempo \in Tempos, frames \in BeatFrameSeqs :
            detector' = [detector EXCEPT !.pc = "convert", !.tempo = tempo,
                                         !.beat_frames = frames]
       \/ Caught("beat_track")
    /\ UNCHANGED <<gvars, fs, rvars, avars, cvars, service, jobs, workspaces,
                   codec, analyzer, extractor>>

\* Lines 55-61: the frames become times, the log line is formatted, the list is
\* returned.
DetectReturn ==
    /\ detector.pc = "convert"
    /\ IF detector.tempo = "array"
       THEN Caught("format")
       ELSE detector' = [detector EXCEPT !.pc = "done",
                                         !.result = Returned(BeatTimes(detector.beat_frames))]
    /\ UNCHANGED <<gvars, fs, rvars, avars, cvars, service, jobs, workspaces,
                   codec, analyzer, extractor>>

SpecBeats ==
    InitComponents({AudioPath})
        /\ [][DetectCall \/ DetectLoad \/ DetectTrack \/ DetectReturn]_vars

\* --------------------------------------- MultimodalAIClient.analyze_frames
\* What the model answers with to 'Return ONLY a JSON object with two keys':
\* each key left out, given with the right type, or given with a wrong one.
SceneDocs ==
    {d @@ ts :
        d \in {NoField} \cup {"description" :> x : x \in {JStr("a clip"), JStr("a dog"), JInt(5)}},
        ts \in {NoField} \cup {"key_moment_timestamp" :> JStr("soon")}
               \cup {"key_moment_timestamp" :> JFloat(x) : x \in (0 - 1)..MaxTimestamp}}

\* The call raises, the text is empty, it is not JSON, it is JSON but not an
\* object, or it is an object.
Replies ==
    {[kind |-> k, doc |-> <<>>] : k \in {"transport_error", "empty", "not_json", "not_object"}}
        \cup {[kind |-> "json", doc |-> d] : d \in SceneDocs}

\* Mutant: key_moment_timestamp may be any number.
ValidSceneAnyTimestamp(d) ==
    /\ "description" \in DOMAIN d
    /\ d["description"].t = "str"
    /\ "key_moment_timestamp" \in DOMAIN d
    /\ d["key_moment_timestamp"].t \in {"int", "float"}

\* VideoSceneAnalysis(**d), models/analysis.py 7-20: description is a str,
\* key_moment_timestamp a float with gt=0.0.
ValidScene(d) ==
    /\ "description" \in DOMAIN d
    /\ d["description"].t = "str"
    /\ "key_moment_timestamp" \in DOMAIN d
    /\ d["key_moment_timestamp"].t \in {"int", "float"}
    /\ d["key_moment_timestamp"].v > 0

ParseScene(d) ==
    [description |-> d["description"].v,
     key_moment_timestamp |-> d["key_moment_timestamp"].v]

\* Lines 83-98, what one answer of the model leads to.
SceneOutcome(r) ==
    CASE r.kind = "transport_error" -> Raised("RuntimeError", "AI analysis failed unexpectedly")
      [] r.kind = "empty" -> Raised("RuntimeError", "AI analysis failed unexpectedly")
      [] r.kind = "not_json" -> Raised("RuntimeError", "AI response for frame analysis was not valid")
      [] r.kind = "not_object" -> Raised("RuntimeError", "AI analysis failed unexpectedly")
      [] r.kind = "json" ->
            IF ValidScene(r.doc) THEN Returned(ParseScene(r.doc))
            ELSE Raised("RuntimeError", "AI response for frame analysis was not valid")

\* Lines 66-68 and 81-83: no frames, ValueError; else the request is sent.
FramesCall ==
    /\ analyzer.pc = "idle"
    /\ \E n \in 0..MaxFrameCount :
         analyzer' = IF n = 0
                     THEN [analyzer EXCEPT !.pc = "done",
                              !.result = Raised("ValueError", "No frames provided for analysis.")]
                     ELSE [analyzer EXCEPT !.pc = "request", !.frames = n]
    /\ UNCHANGED <<gvars, fs, rvars, avars, cvars, service, jobs, workspaces,
                   codec, detector, extractor>>

\* Lines 83-98: the await ends.
FramesReply ==
    /\ analyzer.pc = "request"
    /\ \E r \in Replies :
         analyzer' = [analyzer EXCEPT !.pc = "done", !.response = r,
                                      !.result = SceneOutcome(r)]
    /\ UNCHANGED <<gvars, fs, rvars, avars, cvars, service, jobs, workspaces,
                   codec, detector, extractor>>

SpecFrames == InitComponents({}) /\ [][FramesCall \/ FramesReply]_vars

\* ------------------------ VideoFrameExtractor.extract_evenly_spaced_frames
ExtractPath == "v1.mp4"

\* Mutant: the indices are a whole step apart, from the first frame on.
FrameIndicesByStep(num_frames, total_frames) ==
    IF num_frames >= total_frames
    THEN [k \in 1..total_frames |-> k - 1]
    ELSE [k \in 1..num_frames |-> (k - 1) * (total_frames \div num_frames)]

\* Mutant: every frame of the video is asked for.
FrameIndicesAll(num_frames, total_frames) ==
    [k \in 1..total_frames |-> k - 1]

\* Lines 58-73: indices_to_extract.
FrameIndices(num_frames, total_frames) ==
    IF num_frames >= total_frames
    THEN [k \in 1..total_frames |-> k - 1]
    ELSE [k \in 1..num_frames |->
            IF num_frames = 1 THEN total_frames \div 2
            ELSE ((k - 1) * (total_frames - 1)) \div (num_frames - 1)]

\* Lines 34-50: the guards before the try; VideoCapture opens the file or not.
ExtractCall ==
    /\ extractor.pc = "idle"
    /\ \E n \in (0 - 1)..MaxCount :
         IF ~IsFile(ExtractPath) \/ n <= 0
         THEN extractor' = [extractor EXCEPT !.pc = "done", !.num_frames = n,
                                             !.result = Returned(<<>>)]
         ELSE \/ extractor' = [extractor EXCEPT !.pc = "count", !.num_frames = n,
                                                !.opened = TRUE]
              \/ extractor' = [extractor EXCEPT !.pc = "done", !.num_frames = n,
                                                !.result = Returned(<<>>)]
    /\ UNCHANGED <<gvars, fs, rvars, avars, cvars, service, jobs, workspaces,
                   codec, detector, analyzer>>

\* Lines 90-92: except Exception empties the list; the finally block follows.
ExtractCaught(where) ==
    extractor' = [extractor EXCEPT !.pc = "finally", !.error = where, !.extracted = <<>>]

\* Lines 53-73: the frame count is read; none, [] is returned through the
\* finally block.
ExtractCount ==
    /\ extractor.pc = "count"
    /\ \/ \E total \in (0 - 1)..MaxTotalFrames :
            extractor' = IF total <= 0
                         THEN [extractor EXCEPT !.pc = "finally", !.total_frames = total]
                         ELSE [extractor EXCEPT !.pc = "read", !.total_frames = total,
                                  !.indices_to_extract = FrameIndices(extractor.num_frames, total),
                                  !.indices = FrameIndices(extractor.num_frames, total)]
       \/ ExtractCaught("get")
    /\ UNCHANGED <<gvars, fs, rvars, avars, cvars, service, jobs, workspaces,
                   codec, detector, analyzer>>

\* Lines 75-88: one index: the frame is read and encoded and kept, or reading
\* or encoding fails and it is skipped, or something raises.
ExtractFrame ==
    /\ extractor.pc = "read"
    /\ extractor.indices # <<>>
    /\ \/ extractor' = [extractor EXCEPT !.indices = Tail(@),
                             !.extracted = Append(@, Head(extractor.indices))]
       \/ extractor' = [extractor EXCEPT !.indices = Tail(@)]
       \/ ExtractCaught("read")
    /\ UNCHANGED <<gvars, fs, rvars, avars, cvars, service, jobs, workspaces,
                   codec, detector, analyzer>>

\* Lines 93-96: the capture is released and the list returned.
ExtractReturn ==
    /\ \/ extractor.pc = "read" /\ extractor.indices = <<>>
       \/ extractor.pc = "finally"
    /\ extractor' = [extractor EXCEPT !.pc = "done",
                                      !.result = Returned(extractor.extracted)]
    /\ UNCHANGED <<gvars, fs, rvars, avars, cvars, service, jobs, workspaces,
                   codec, detector, analyzer>>

SpecExtractor ==
    InitComponents({ExtractPath})
        /\ [][ExtractCall \/ ExtractCount \/ ExtractFrame \/ ExtractReturn]_vars


\* ----------------------------------------- analyze_videos called directly
InitAnalysis ==
    /\ fs \in [AllPaths -> Kinds]
    /\ \A p \in AllPaths \ AnalysisPaths : fs[p] = "absent"
    /\ RenderIdle
    /\ apc = "loop"
    /\ video_paths \in SeqsUpTo(AnalysisPaths, MaxVideos)
    /\ vidx = 1
    /\ video_analyses = EmptyDict
    /\ alog = <<>>
    /\ aresult = NoResult
    /\ ControllerIdle
    /\ ComponentsIdle

SpecAnalysis == InitAnalysis /\ [][AnalyzeStep]_vars

\* ===================================================== render_video claims
ExistingShots == {k \in DOMAIN edl : ~SourceMissing(edl[k])}
StagedShots == {calls[k].shot : k \in {c \in DOMAIN calls : calls[c].stage = "stage"}}
StagedOk ==
    {calls[k].shot : k \in {c \in DOMAIN calls :
                              calls[c].stage = "stage" /\ calls[c].outcome = "ok"}}
FailedCalls == {k \in DOMAIN calls : calls[k].outcome \in {"exit_nonzero", "launch_failure"}}
WorkspaceCreated == temp_dir # None
WorkspaceGone == temp_dir \notin dirs
NoValidClips == Raised("ValueError", "No valid video clips to concatenate")

\* C1 (as claimed): for every render job that created a workspace, the workspace
\* directory no longer exists when render_video returns or raises.
C1_WorkspaceGoneOnEveryExit ==
    (rpc = "done" /\ WorkspaceCreated) => WorkspaceGone

\* C1 (amended): for every render job that created a workspace, the removal of
\* the workspace has been attempted when render_video returns or raises, on
\* every exit path, and the directory no longer exists unless shutil.rmtree
\* itself failed (which is logged, not raised).
C1_CleanupRunsOnEveryExit ==
    (rpc = "done" /\ WorkspaceCreated) =>
        /\ cleanup \in {"removed", "rmtree_failed"}
        /\ (cleanup = "removed" => WorkspaceGone)

\* C1 witness: a job ended by a failed staging invocation, its workspace removed.
C1_Witness ==
    /\ rpc = "done"
    /\ WorkspaceCreated
    /\ rresult = Raised("RuntimeError", StageMessage("stage"))
    /\ cleanup = "removed"
    /\ WorkspaceGone

AllSourcesMissing == \A k \in DOMAIN edl : SourceMissing(edl[k])

\* C2 (as claimed): given an EDL in which every shot references a non-existent
\* source file, render_video (past its audio check, with its workspace) fails with
\* NoValidClips without invoking the external tool, and the workspace directory
\* does not exist after the call.
C2_AllMissingLeavesNothing ==
    (rpc = "done" /\ WorkspaceCreated /\ edl # <<>> /\ AllSourcesMissing) =>
        /\ rresult = NoValidClips
        /\ calls = <<>>
        /\ WorkspaceGone

\* C2 (amended): given an existing audio file and an EDL in which every shot
\* references a non-existent source file, render_video, once it has its workspace,
\* fails with NoValidClips without invoking the external tool, and the workspace
\* removal has run: the directory does not exist after the call unless
\* shutil.rmtree itself failed.
C2_AllMissingNoValidClips ==
    (rpc = "done" /\ WorkspaceCreated /\ AllSourcesMissing) =>
        /\ rresult = NoValidClips
        /\ calls = <<>>
        /\ cleanup \in {"removed", "rmtree_failed"}
        /\ (cleanup = "removed" => WorkspaceGone)

\* C2 witness: a two-shot EDL, both sources missing, ended with NoValidClips.
C2_Witness ==
    /\ rpc = "done"
    /\ Len(edl) >= 2
    /\ AllSourcesMissing
    /\ rresult = NoValidClips
    /\ calls = <<>>
    /\ WorkspaceCreated
    /\ WorkspaceGone

StageRank(c) ==
    CASE c.stage = "stage" -> c.shot
      [] c.stage = "concat" -> Len(edl) + 1
      [] c.stage = "mux" -> Len(edl) + 2

\* C3: the stages run in strict order with at most one external-tool invocation
\* in flight: shots are staged in shot-index order, an invocation starts only
\* after every earlier one has succeeded, concatenation starts only after every
\* shot with an existing source was staged, and the mux only after concatenation.
C3_StrictStageOrder ==
    /\ Cardinality(Running) <= 1
    /\ \A k, l \in DOMAIN calls :
         k < l => /\ calls[k].outcome = "ok"
                  /\ StageRank(calls[k]) < StageRank(calls[l])
    /\ \A l \in DOMAIN calls :
         /\ calls[l].stage = "concat" => StagedOk = ExistingShots
         /\ calls[l].stage = "mux" =>
               \E k \in 1..(l - 1) : calls[k].stage = "concat" /\ calls[k].outcome = "ok"

\* C3 witness: two shots staged, concatenated, and the mux in flight.
C3_Witness ==
    /\ rpc = "mux"
    /\ Cardinality(StagedOk) >= 2
    /\ calls[Len(calls)].stage = "mux"
    /\ calls[Len(calls)].outcome = "running"

\* C4 (as claimed): in every render stage, a non-zero exit of the external tool
\* and a failure to launch it both end the job with a render error that
\* identifies the stage; no further invocation is made and cleanup still runs.
C4_ToolFailureIsStageError ==
    (rpc \in {"finally", "done"} /\ FailedCalls # {}) =>
        \A k \in FailedCalls :
            /\ pending = Raised("RuntimeError", StageMessage(calls[k].stage))
            /\ k = Len(calls)
            /\ rpc = "done" => (rresult = pending /\ cleanup \in {"removed", "rmtree_failed"})

RangeOf(sq) == {sq[k] : k \in DOMAIN sq}

\* C6: the join list holds exactly the intermediate clips of the shots that were
\* staged successfully, each once, in increasing shot-index order, with no entry
\* for a skipped shot.
C6_JoinListInShotOrder ==
    concat_list # None =>
        /\ RangeOf(concat_list) = {ClipPath(temp_dir, k) : k \in StagedOk}
        /\ \A a, b \in DOMAIN concat_list : a < b => concat_list[a][3] < concat_list[b][3]
        /\ \A k \in DOMAIN edl :
             SourceMissing(edl[k]) => ClipPath(temp_dir, k) \notin RangeOf(concat_list)

\* C6 witness: a join list of two clips around a skipped shot.
C6_Witness ==
    /\ concat_list # None
    /\ Len(concat_list) = 2
    /\ Len(edl) = 3
    /\ SourceMissing(edl[2])


\* =================================================== analyze_videos claims
Failed == {k \in DOMAIN alog : alog[k] \in {"missing", "error"}}
Succeeded == {k \in DOMAIN alog : alog[k] = "ok"}
Distinct(sq) == \A a, b \in DOMAIN sq : a # b => sq[a] # sq[b]

\* C7 (as claimed): analyze_videos over N input videos of which K fail returns
\* normally, never raises, and returns a mapping with exactly N-K entries.
C7_ReturnsNMinusK ==
    apc = "done" =>
        /\ aresult.kind = "return"
        /\ Cardinality(DOMAIN aresult.msg) = Len(video_paths) - Cardinality(Failed)

\* C7 (amended): analyze_videos over N input videos of which K fail returns
\* normally and never raises; when the N paths are pairwise distinct the mapping
\* has exactly N-K entries (a path given twice has one entry), and when all N
\* fail it is empty.
C7_ReturnsNMinusKOfDistinct ==
    apc = "done" =>
        /\ aresult.kind = "return"
        /\ aresult.msg = video_analyses
        /\ Distinct(video_paths) =>
              Cardinality(DOMAIN aresult.msg) = Len(video_paths) - Cardinality(Failed)
        /\ Cardinality(Failed) = Len(video_paths) => DOMAIN aresult.msg = {}

\* C7 witness: three distinct videos, one failed in the AI client, two entries.
C7_Witness ==
    /\ apc = "done"
    /\ Len(video_paths) = 3
    /\ Distinct(video_paths)
    /\ \E k \in DOMAIN alog : alog[k] = "error"
    /\ Cardinality(Failed) = 1
    /\ Cardinality(DOMAIN aresult.msg) = 2

\* C8 (as claimed): all video analyses of one call are issued together: whenever
\* the coordinator waits for an analysis to complete, the analysis of every
\* video (that is a file) has been started.
C8_AllIssuedTogether ==
    (apc = "awaiting" /\ Distinct(video_paths)) =>
        \A k \in DOMAIN video_paths : IsFile(video_paths[k]) => k <= Len(alog)

\* C9: in every state of an analyze_videos call, every key of the result mapping
\* is one of the video paths passed in, whose analysis succeeded and whose entry
\* is that analysis; a video none of whose analyses succeeded is never a key,
\* neither as an error entry nor as a placeholder.
C9_KeysAreAnalysedInputs ==
    /\ DOMAIN video_analyses \subseteq RangeOf(video_paths)
    /\ \A p \in DOMAIN video_analyses :
         /\ \E k \in Succeeded : video_paths[k] = p
         /\ video_analyses[p] = Analysis(p)
    /\ \A k \in Failed :
         (\A l \in Succeeded : video_paths[l] # video_paths[k]) =>
             video_paths[k] \notin DOMAIN video_analyses

\* C9 witness: one video analysed and stored, another failed in the AI client and
\* absent from the mapping.
C9_Witness ==
    /\ apc \in {"loop", "awaiting", "done"}
    /\ \E k \in Succeeded : video_paths[k] \in DOMAIN video_analyses
    /\ \E k \in DOMAIN alog :
         alog[k] = "error" /\ video_paths[k] \notin DOMAIN video_analyses


\* ============================================================ pipeline claims
AudioFailed == audio_outcome \in {"missing", "error"}

\* C10: audio analysis failure is never fatal: analyze_audio returns an empty
\* AudioAnalysis (never null, never an exception) when the audio file is missing
\* or the analysis fails, and the run goes on: video analysis is started, the
\* plan is requested once it has returned, and a plan that is returned is handed
\* to render_video.
C10_AudioFailureIsNotFatal ==
    /\ AudioFailed =>
          /\ cpc \in {"videos", "planning", "render", "finished"}
          /\ apc # "idle"
          /\ audio_analysis = EmptyAudio
          /\ cpc \in {"planning", "render", "finished"} => (apc = "done" /\ requests = 1)
          /\ (cpc = "finished" /\ plan.kind = "return") => rpc = "done"

\* C10 witness: the audio path is not a file, analyze_audio returned the empty
\* analysis, and the run went through video analysis and planning into
\* render_video.
C10_Witness ==
    /\ audio_outcome = "missing"
    /\ audio_analysis = EmptyAudio
    /\ cpc = "finished"
    /\ apc = "done"
    /\ plan.kind = "return"
    /\ rpc = "done"

\* C11 (as claimed): audio analysis and the video analyses of a run are issued
\* together, so that video analysis may start before audio analysis has
\* completed: at the step in which audio analysis completes, video analysis has
\* already been started.
C11_AudioAndVideoConcurrent ==
    [][(audio_outcome = None /\ audio_outcome' # None) => apc # "idle"]_vars

\* The order the run keeps instead: analyze_videos is called only once
\* analyze_audio has returned.
AudioCompletesFirst == apc # "idle" => audio_outcome # None

\* C12 (as claimed): the planner, given an empty video mapping, fails before
\* issuing any request to the generative model: no request is made in a run in
\* which analyze_videos returned an empty mapping.
C12_EmptyMappingNoRequest ==
    (apc = "done" /\ aresult.kind = "return" /\ DOMAIN aresult.msg = {}) =>
        /\ requests = 0
        /\ response = NoResponse

\* C13: one create_edit_plan call issues at most one request to the generative
\* model; an empty response, one that does not parse as JSON and one that fails
\* schema validation each end the call with a planning error, which ends the
\* run, and no second request is made.
C13_AtMostOneRequest ==
    /\ requests <= 1
    /\ response # NoResponse => requests = 1
    /\ response.kind \in {"empty", "not_json", "invalid"} =>
          /\ plan.kind = "raise"
          /\ plan.type = "RuntimeError"
          /\ cpc = "finished"
          /\ requests = 1

\* C13 witness: a response that is not JSON ended the call with the planning
\* error after the one request.
C13_Witness ==
    /\ response.kind = "not_json"
    /\ plan = Raised("RuntimeError", "AI response for EDL was not valid")
    /\ requests = 1
    /\ cpc = "finished"

ValidShot(shot) == shot.start_time >= 0 /\ shot.end_time > shot.start_time
ValidEDL(shots) == Len(shots) >= 1 /\ \A k \in DOMAIN shots : ValidShot(shots[k])

\* C14 (as claimed): every EDL the planner returns has at least one shot and, for
\* every shot, start_time >= 0 and end_time > start_time; a response violating
\* any of these is rejected with a planning error and never reaches
\* render_video.  (Stated for the runs in which some video was analysed.)
C14_ReturnedEDLIsValid ==
    (aresult.kind = "return" /\ DOMAIN aresult.msg # {}) =>
        /\ plan.kind = "return" => ValidEDL(plan.msg)
        /\ (response.kind = "edl" /\ ~ValidEDL(response.shots)) =>
              /\ plan.kind = "raise"
              /\ rpc = "idle"

\* C15: a planning failure is fatal to the run: whenever create_edit_plan fails
\* the run is finished with that failure, render_video is never called, no
\* workspace is created and no external-tool invocation is made.
C15_PlanningFailureIsFatal ==
    plan.kind = "raise" =>
        /\ cpc = "finished"
        /\ signals[Len(signals)] =
              [signal |-> "generation_finished", payload |-> FailureMessage(plan)]
        /\ rpc = "idle"
        /\ temp_dir = None
        /\ dirs = {}
        /\ calls = <<>>

\* C15 witness: the request to the model failed and the run finished without
\* render_video.
C15_Witness ==
    /\ response.kind = "transport_error"
    /\ plan.kind = "raise"
    /\ cpc = "finished"
    /\ rpc = "idle"
    /\ dirs = {}
    /\ calls = <<>>

\* ====================================================== classification claims
\* The extension of a path, read without regard to case.
HasAudioExtension(p) == p \in {"a.wav", "b.MP3"}
HasVideoExtension(p) == p \in {"v1.mp4", "v2.mov", "v3.mp4"}
HasSupportedExtension(p) == HasAudioExtension(p) \/ HasVideoExtension(p)

AudioInputs == SelectSeq(file_paths, HasAudioExtension)
VideoInputs == SelectSeq(file_paths, HasVideoExtension)
WithoutUnsupported(paths) == SelectSeq(paths, HasSupportedExtension)

AllInputsExist == \A k \in DOMAIN file_paths : Exists(file_paths[k])
SomeInputMissing == \E k \in DOMAIN file_paths : ~Exists(file_paths[k])

Started == [signal |-> "generation_started", payload |-> NoPayload]
FinishedWith(payload) == [signal |-> "generation_finished", payload |-> payload]
InputError(text) == [kind |-> "Input Error", text |-> text]

\* The run ended in classification: the two notifications, and nothing else.
EndedInClassification(text) ==
    /\ cpc = "finished"
    /\ signals = <<Started, FinishedWith(InputError(text))>>
    /\ audio_outcome = None
    /\ apc = "idle"
    /\ requests = 0
    /\ plan = NoResult
    /\ rpc = "idle"

\* C16: if any path of the input list does not exist, whatever its extension and
\* position, the run fails with the input error MissingFile, and no audio
\* analysis, video analysis, planning or rendering is started in that run.
C16_MissingInputFailsTheRun ==
    (cpc # "start" /\ SomeInputMissing) =>
        EndedInClassification("Input file does not exist")

\* C16 witness: the last path of three, of an unsupported extension, is missing
\* behind an existing audio file and an existing video.
C16_Witness ==
    /\ Len(file_paths) = 3
    /\ HasAudioExtension(file_paths[1]) /\ Exists(file_paths[1])
    /\ HasVideoExtension(file_paths[2]) /\ Exists(file_paths[2])
    /\ ~HasSupportedExtension(file_paths[3]) /\ ~Exists(file_paths[3])
    /\ EndedInClassification("Input file does not exist")

\* C17: for every input list of existing files with exactly one audio-extension
\* file and no video-extension file the run fails with NoVideoFound; for every
\* list with at least one video-extension file and no audio-extension file it
\* fails with NoAudioFound; in both cases before any analysis starts.
C17_NoVideoOrNoAudio ==
    (cpc # "start" /\ AllInputsExist) =>
        /\ (Len(AudioInputs) = 1 /\ VideoInputs = <<>>) =>
              EndedInClassification("No video files found")
        /\ (Len(VideoInputs) >= 1 /\ AudioInputs = <<>>) =>
              EndedInClassification("No audio file found")

\* C17 witness: one existing audio file next to an unsupported file, no video:
\* NoVideoFound.
C17_Witness ==
    /\ AllInputsExist
    /\ Len(file_paths) = 2
    /\ Len(AudioInputs) = 1
    /\ VideoInputs = <<>>
    /\ EndedInClassification("No video files found")

\* C18: for every input list of existing files with more than one
\* audio-extension file, the audio asset of the run, which analyze_audio is given
\* and from which render_video builds its mux command, is the first audio file in
\* input order; the later ones cause no failure and are never used.
C18_FirstAudioIsUsed ==
    (cpc # "start" /\ AllInputsExist /\ Len(AudioInputs) > 1) =>
        /\ VideoInputs = <<>> => EndedInClassification("No video files found")
        /\ VideoInputs # <<>> =>
              /\ audio_file_path = AudioInputs[1]
              /\ cpc = "finished" => audio_outcome # None
              /\ rpc # "idle" => audio_path = AudioInputs[1]

\* C18 witness: two different audio files before a video; the run went on to
\* render_video with the first.
C18_Witness ==
    /\ AllInputsExist
    /\ Len(AudioInputs) = 2
    /\ AudioInputs[1] # AudioInputs[2]
    /\ VideoInputs # <<>>
    /\ audio_outcome # None
    /\ rpc = "done"
    /\ audio_path = AudioInputs[1]

\* C19: existing files with an unsupported extension are skipped, not errors:
\* the classification of a list of existing files yields the same audio asset
\* and the same ordered video assets (or the same failure) as the list with its
\* unsupported-extension entries removed, and extension matching is
\* case-insensitive.  The first conjunct is about the classification as a
\* function of the list, the other two about what the run has when the
\* classification has just ended.
C19_UnsupportedIsSkipped ==
    /\ (cpc = "start" /\ AllInputsExist) =>
          LET c == Identify(WithoutUnsupported(file_paths))
          IN  /\ Identify(file_paths) = c
              /\ (AudioInputs # <<>> /\ VideoInputs # <<>>) => c.error = NoResult
    /\ (cpc = "audio" /\ AllInputsExist) =>
          LET c == Identify(WithoutUnsupported(file_paths))
          IN  /\ c.error = NoResult
              /\ audio_file_path = c.audio
              /\ video_file_paths = c.videos
              /\ audio_file_path = AudioInputs[1]
              /\ video_file_paths = VideoInputs
    /\ (cpc = "finished" /\ audio_outcome = None /\ AllInputsExist) =>
          LET c == Identify(WithoutUnsupported(file_paths))
          IN  /\ c.error # NoResult
              /\ EndedInClassification(c.error.msg)

\* C19 witness: an unsupported file between an upper-case audio extension and a
\* video; the run went on with both.
C19_Witness ==
    /\ AllInputsExist
    /\ file_paths = <<"b.MP3", "n.txt", "v2.mov">>
    /\ cpc = "audio"
    /\ audio_file_path = "b.MP3"
    /\ video_file_paths = <<"v2.mov">>

\* =============================================================== run claims
\* C20: every pipeline run reports exactly one terminal outcome:
\* start_video_generation emits the started notification exactly once, before
\* any other work, then the finished notification exactly once, with the output
\* path or with a failure, whatever stage fails; the run is never stuck short of
\* it and no exception leaves the call.
C20_OneTerminalOutcome ==
    /\ signals = <<>> =>
          /\ cpc = "start"
          /\ audio_outcome = None /\ apc = "idle" /\ requests = 0 /\ rpc = "idle"
    /\ cpc # "start" => (signals # <<>> /\ signals[1] = Started)
    /\ Len(signals) <= 2
    /\ cpc = "finished" <=> Len(signals) = 2
    /\ Len(signals) = 2 =>
          /\ signals[2].signal = "generation_finished"
          /\ signals[2].payload.kind \in {"path", "Input Error", "unexpected error"}
          /\ (rresult.kind = "raise" => signals[2].payload = FailureMessage(rresult))
          /\ (rresult.kind = "return" => signals[2].payload.kind = "path")
          /\ (plan.kind = "raise" => signals[2].payload = FailureMessage(plan))
    /\ cpc # "finished" => ENABLED Next

\* C20 witness: render_video raised and the run was finished with that failure.
C20_Witness ==
    /\ cpc = "finished"
    /\ rresult.kind = "raise"
    /\ signals = <<Started, FinishedWith(FailureMessage(rresult))>>

\* C21 (as claimed): every fatal outcome is reported with an error kind that
\* identifies its origin and differs from success: a run is reported as an input
\* error only when classification failed; a failure raised by the planner or by
\* render_video is never reported as an input error.
C21_InputErrorOnlyFromClassification ==
    (cpc = "finished" /\ signals[2].payload.kind = "Input Error") =>
        /\ audio_outcome = None
        /\ plan = NoResult
        /\ rpc = "idle"

ScenarioPlan == <<PlanShot("v1.mp4", 0, 1), PlanShot("v2.mov", 0, 1)>>

\* The end-to-end scenario: one audio file and two videos, all existing files,
\* both videos analysed, a valid 2-shot plan over the two videos, the workspace
\* made and removed without error and no external-tool invocation failed.
Scenario ==
    /\ file_paths = <<"a.wav", "v1.mp4", "v2.mov">>
    /\ \A k \in DOMAIN file_paths : IsFile(file_paths[k])
    /\ alog = <<"ok", "ok">>
    /\ plan = Returned(ScenarioPlan)
    /\ FailedCalls = {}
    /\ WorkspaceCreated
    /\ cleanup # "rmtree_failed"

\* C22 (as claimed): end to end, in the scenario above, the run finishes with
\* success, reports the requested output path, and the temporary workspace is
\* absent afterwards.
C22_EndToEndSuccess ==
    (cpc = "finished" /\ Scenario) =>
        /\ signals[2] = FinishedWith([kind |-> "path", text |-> "output.mp4"])
        /\ rresult = Returned("output.mp4")
        /\ WorkspaceGone

\* What the try block of render_video left, read from the invocations made.
TryOutcome ==
    IF FailedCalls # {}
    THEN ToolFailure(calls[Len(calls)].stage, calls[Len(calls)].outcome)
    ELSE IF calls # <<>> /\ calls[Len(calls)].stage = "mux" /\ calls[Len(calls)].outcome = "ok"
         THEN Returned(output_path)
         ELSE pending

\* C24: a failure to remove the workspace is never a run failure: if
\* shutil.rmtree fails, a render that had succeeded still returns the output
\* path, and a render that had failed still raises its original error, not the
\* error of the cleanup.
C24_CleanupFailureIsNotFatal ==
    (rpc = "done" /\ cleanup = "rmtree_failed") =>
        /\ rresult = pending
        /\ rresult = TryOutcome
        /\ rresult # Raised("OSError", "rmtree")

\* C24 witness: the mux succeeded, the removal of the workspace failed, and
\* render_video returned the output path.
C24_Witness ==
    /\ rpc = "done"
    /\ cleanup = "rmtree_failed"
    /\ ~WorkspaceGone
    /\ calls # <<>>
    /\ calls[Len(calls)].stage = "mux"
    /\ rresult = Returned(output_path)

Cancelled == pending.type = "CancelledError"

\* C25 (as claimed): if the run is cancelled at a suspension point of
\* render_video (during a staging, concatenation or mux invocation), the
\* workspace cleanup still runs before the call exits, and the in-flight
\* external-tool task is cancelled rather than left running against the removed
\* workspace.
C25_CancelStopsTheTool ==
    (rpc = "done" /\ Cancelled) =>
        /\ cleanup \in {"removed", "rmtree_failed"}
        /\ rresult = pending
        /\ Running = {}
        /\ \A k \in DOMAIN calls : calls[k].outcome \in {"ok", "cancelled"}

\* What holds of a cancelled render_video: the cleanup has run when it exits.
CancelStillCleansUp ==
    (rpc = "done" /\ Cancelled) =>
        /\ cleanup \in {"removed", "rmtree_failed"}
        /\ rresult = pending

\* C26: the availability of the external media tool is checked exactly once,
\* when the EditorService is constructed; the construction fails if the tool is
\* missing or not working, and render_video never repeats the check.
C26_ToolCheckedOnceAtConstruction ==
    /\ service.checks <= 1
    /\ service.state = "new" <=> service.checks = 0
    /\ service.state = "failed" =>
          /\ service.error = Raised("RuntimeError", "FFmpeg is required but not found")
          /\ rpc = "idle"
    /\ rpc # "idle" => (service.state = "ready" /\ service.checks = 1)
    /\ \A k \in DOMAIN calls : calls[k].stage \in {"stage", "concat", "mux"}

\* C26 witness: a constructed service has rendered a video to its end, with
\* three external-tool invocations, after the one check.
C26_Witness ==
    /\ service.state = "ready"
    /\ service.checks = 1
    /\ rpc = "done"
    /\ rresult = Returned(output_path)
    /\ Len(calls) >= 3

\* A job's workspace is a directory that this job created, and no other live
\* job has the same one.
WorkspacesAreOwn ==
    \A j \in JobIds :
        JobLive(j) =>
            /\ workspaces[jobs[j].temp_dir] = j
            /\ \A k \in JobIds \ {j} : JobLive(k) => jobs[k].temp_dir # jobs[j].temp_dir

\* A directory disappears only in the cleanup of the job that created it.
RemovesOnlyOwn ==
    \A n \in TempNames :
        (workspaces[n] # 0 /\ workspaces'[n] = 0) =>
            /\ jobs[workspaces[n]].pc = "finally"
            /\ jobs[workspaces[n]].temp_dir = n
            /\ jobs'[workspaces[n]].pc = "done"

\* C23: two render jobs that run concurrently never share a workspace: each
\* job's workspace is a directory created by that job, distinct from the
\* workspace of every other live job, and a job removes only its own workspace.
C23_WorkspaceIsExclusive == []WorkspacesAreOwn /\ [][RemovesOnlyOwn]_vars

\* C23 witness: one job has removed its workspace while another job is still
\* at work in a workspace of its own.
C23_Witness ==
    \E j, k \in JobIds :
        /\ j # k
        /\ jobs[j].pc = "done" /\ jobs[j].temp_dir # 0 /\ workspaces[jobs[j].temp_dir] = 0
        /\ jobs[k].pc = "working" /\ jobs[k].stage > 0 /\ workspaces[jobs[k].temp_dir] = k

C28_DetectBeatsNeverRaises ==
    detector.pc = "done" =>
        /\ detector.result.kind = "return"
        /\ (~IsFile(AudioPath) \/ detector.error # None) => detector.result.msg = <<>>

\* C28 witness: the audio file is there and loads, beat tracking fails, and
\* the call has returned the empty sequence.
C28_Witness ==
    /\ IsFile(AudioPath)
    /\ detector.pc = "done"
    /\ detector.error = "beat_track"
    /\ detector.result = Returned(<<>>)

\* The answer has the expected shape: a text and a number greater than 0.
FitsShape(r) ==
    /\ r.kind = "json"
    /\ DOMAIN r.doc = {"description", "key_moment_timestamp"}
    /\ r.doc["description"].t = "str"
    /\ r.doc["key_moment_timestamp"].t \in {"int", "float"}
    /\ r.doc["key_moment_timestamp"].v > 0

\* C29: analyze_frames never returns a silently degraded result: when no frames
\* are given, when the model response is empty, when it does not parse, or when
\* it does not fit the expected shape (including a key-moment timestamp that is
\* not > 0), the call fails with an error that propagates to the caller.
C29_NoDegradedAnalysis ==
    analyzer.pc = "done" =>
        /\ (analyzer.frames = 0 \/ ~FitsShape(analyzer.response)) =>
              analyzer.result.kind = "raise"
        /\ analyzer.result.kind = "return" =>
              /\ analyzer.result.msg.key_moment_timestamp > 0
              /\ analyzer.result.msg.description
                    = analyzer.response.doc["description"].v

\* C29 witness: frames were sent and the model answered with a well-formed
\* object whose key-moment timestamp is 0; the call has raised.
C29_Witness ==
    /\ analyzer.pc = "done"
    /\ analyzer.frames > 0
    /\ analyzer.response.kind = "json"
    /\ DOMAIN analyzer.response.doc = {"description", "key_moment_timestamp"}
    /\ analyzer.response.doc["description"].t = "str"
    /\ analyzer.response.doc["key_moment_timestamp"] = JFloat(0)
    /\ analyzer.result.kind = "raise"

Min(a, b) == IF a <= b THEN a ELSE b

\* C30: extract_evenly_spaced_frames returns an empty sequence, without
\* raising, when the file is missing or cannot be opened, when the video has no
\* frames, or when the requested count is <= 0; otherwise it returns at most
\* min(count, total frames) frames.
C30_ExtractorReturnsBounded ==
    extractor.pc = "done" =>
        /\ extractor.result.kind = "return"
        /\ IF \/ ~IsFile(ExtractPath)
              \/ ~extractor.opened
              \/ extractor.total_frames <= 0
              \/ extractor.num_frames <= 0
           THEN extractor.result.msg = <<>>
           ELSE Len(extractor.result.msg)
                    <= Min(extractor.num_frames, extractor.total_frames)

\* C30 witness: fewer frames were asked for than the video has, more than
\* one, and that many have been returned.
C30_Witness ==
    /\ extractor.pc = "done"
    /\ extractor.opened
    /\ extractor.num_frames > 1
    /\ extractor.num_frames < extractor.total_frames
    /\ extractor.result.kind = "return"
    /\ Len(extractor.result.msg) = extractor.num_frames

StagingCalls == {k \in DOMAIN calls : calls[k].stage = "stage"}

\* C31 (as claimed): the staging command of a shot carries a text burn-in
\* filter if and only if the shot has an overlay; a shot without an overlay is
\* trimmed with no filter.
C31_FilterIffOverlay ==
    \A k \in StagingCalls :
        calls[k].vf # None <=> edl[calls[k].shot].text_overlay # None

\* C31 (amended): the staging command of a shot carries a text burn-in filter,
\* with the overlay's text, if and only if the shot has an overlay whose text
\* is not empty; a shot without an overlay, or with an overlay of empty text,
\* is trimmed with no filter.
C31_FilterIffOverlayText ==
    \A k \in StagingCalls :
        LET overlay == edl[calls[k].shot].text_overlay
        IN  /\ calls[k].vf # None <=> (overlay # None /\ overlay # "")
            /\ calls[k].vf # None => calls[k].vf = overlay

\* C31 witness: one shot was staged with its text burnt in, another, whose
\* overlay has an empty text, with no filter.
C31_Witness ==
    \E j, k \in StagingCalls :
        /\ calls[j].vf = "hi"
        /\ edl[calls[k].shot].text_overlay = ""
        /\ calls[k].vf = None
        /\ calls[k].outcome = "ok"

\* Reading an escaped text back: the escape sequence stands for one single
\* quote, every other character for itself.
RECURSIVE Unescape(_)
Unescape(e) ==
    IF e = <<>> THEN <<>>
    ELSE IF Len(e) >= 4 /\ SubSeq(e, 1, 4) = <<"'", "\\", "'", "'">>
         THEN <<"'">> \o Unescape(SubSeq(e, 5, Len(e)))
         ELSE <<Head(e)>> \o Unescape(Tail(e))

\* Where the k-th character of the text begins in the escaped text.
EscapedStart(text, k) ==
    k + 3 * Cardinality({j \in 1..(k - 1) : text[j] = "'"})

\* C32: overlay text is escaped before it is embedded in the filter argument:
\* every single-quote character of the text is replaced by the escape sequence
\* and every other character is unchanged, so un-escaping the embedded text
\* gives back the original text for every text over a bounded alphabet.
C32_EscapeRoundTrip ==
    escaper.pc = "escaped" =>
        LET text == escaper.text
            e == escaper.escaped
        IN  /\ Len(e) = EscapedStart(text, Len(text) + 1) - 1
            /\ \A k \in 1..Len(text) :
                 LET at == EscapedStart(text, k)
                 IN  IF text[k] = "'"
                     THEN SubSeq(e, at, at + 3) = <<"'", "\\", "'", "'">>
                     ELSE e[at] = text[k]
            /\ Unescape(e) = text

\* C32 witness: a text with a single quote, a backslash and a letter has been
\* escaped, and is longer for it.
C32_Witness ==
    /\ escaper.pc = "escaped"
    /\ \E j, k \in 1..Len(escaper.text) :
         escaper.text[j] = "'" /\ escaper.text[k] = "\\"
    /\ Len(escaper.escaped) > Len(escaper.text)

\* C33: intermediate clip names are unique within a job and keyed to the shot
\* index: the clip staged for shot i is named by i (counting skipped shots), so
\* no two shots of one EDL ever write the same intermediate file.
C33_ClipNamesKeyedToShot ==
    \A j \in StagingCalls :
        /\ calls[j].shot \in DOMAIN edl
        /\ calls[j].target = <<temp_dir, "clip", calls[j].shot - 1>>
        /\ \A k \in StagingCalls :
             j # k => /\ calls[j].shot # calls[k].shot
                      /\ calls[j].target # calls[k].target
                      /\ Format03d(calls[j].target[3]) # Format03d(calls[k].target[3])

\* C33 witness: the second of three shots was skipped; the first was staged
\* to clip 000 and the third to clip 002.
C33_Witness ==
    /\ Len(edl) = 3
    /\ Len(calls) >= 2
    /\ calls[1].stage = "stage" /\ calls[1].shot = 1
    /\ Format03d(calls[1].target[3]) = <<0, 0, 0>>
    /\ calls[2].stage = "stage" /\ calls[2].shot = 3
    /\ Format03d(calls[2].target[3]) = <<0, 0, 2>>

\* C34 (as claimed): after the user clicks Generate with files loaded, the
\* pipeline run is actually started and eventually reports a finished
\* notification, after which the Generate button is enabled again; the button
\* never stays disabled forever. Stated for the state a click leaves: once a
\* run was asked for, the controller has begun it.
C34_ClickStartsTheRun ==
    gui.coroutines > 0 => (cpc # "idle" /\ signals # <<>>)

\* C35 (as claimed): at most one pipeline run is in flight at a time when
\* driven from the main window: the Generate button is disabled from the click
\* until the finished notification, under every interleaving of clicks and
\* file drops, so two runs never write the fixed output path concurrently.
\* No finished notification arrives here, so every run asked for is in flight.
C35_OneRunAtATime ==
    /\ gui.coroutines <= 1
    /\ gui.coroutines > 0 => ~gui.enabled

\* C36 (as claimed): the main window shows a success status only for a run
\* that succeeded: when the finished notification carries a failure, the
\* status never reads as a successfully created video.
C36_SuccessOnlyForSuccess ==
    (cpc = "finished" /\ gui.status.kind = "Video created successfully") =>
        gui.status.payload.kind = "path"

MuxCalls == {k \in DOMAIN calls : calls[k].stage = "mux"}

\* C37: the final output path is written only by the mux stage: in a render
\* job in which staging or concatenation fails, or no clip survives, no
\* external-tool invocation names the output path as its target, and every
\* intermediate file (clips, join list, concatenated video) lies inside the
\* job's workspace.
C37_OutputWrittenOnlyByMux ==
    /\ \A k \in DOMAIN calls :
         IF calls[k].stage = "mux"
         THEN /\ calls[k].target = output_path
              /\ calls[k].input[1][1] = temp_dir
         ELSE /\ calls[k].target[1] = temp_dir
              /\ calls[k].stage = "concat" => calls[k].input = <<temp_dir, "concat_list.txt">>
    /\ (\E k \in FailedCalls : calls[k].stage \in {"stage", "concat"}) => MuxCalls = {}
    /\ (rpc \in {"finally", "done"} /\ intermediate_clips = <<>>) => MuxCalls = {}
    /\ concat_list = None => MuxCalls = {}

\* C37 witness: two clips were staged and the concatenation failed; the job
\* has ended and nothing was invoked on the output path.
C37_Witness ==
    /\ rpc = "done"
    /\ Len(calls) = 3
    /\ calls[3].stage = "concat"
    /\ calls[3].outcome = "exit_nonzero"
    /\ calls[3].target = <<temp_dir, "concatenated_video.mp4">>
    /\ MuxCalls = {}

\* C38: render_video called with an audio path that does not exist fails
\* before acquiring a workspace: no temporary directory is created and no
\* external-tool invocation is made.
C38_MissingAudioFailsEarly ==
    ~Exists(audio_path) =>
        /\ rpc \in {"entry", "done"}
        /\ temp_dir = None
        /\ dirs = {}
        /\ calls = <<>>
        /\ rpc = "done" =>
              /\ rresult = Raised("FileNotFoundError", "Audio file not found")
              /\ cleanup = None

\* C38 witness: the audio file is missing, a shot's source is there, and
\* render_video has raised.
C38_Witness ==
    /\ ~Exists(audio_path)
    /\ rpc = "done"
    /\ rresult.type = "FileNotFoundError"
    /\ \E k \in DOMAIN edl : Exists(edl[k].video_path)

\* C39: when the input list of existing files contains neither an
\* audio-extension nor a video-extension file (including the empty list),
\* classification fails with NoAudioFound, never with NoVideoFound: the audio
\* check comes first.
C39_AudioCheckComesFirst ==
    (cpc # "start" /\ AllInputsExist /\ AudioInputs = <<>> /\ VideoInputs = <<>>) =>
        /\ cpc = "finished"
        /\ Len(signals) = 2
        /\ signals[2] = FinishedWith(InputError("No audio file found"))
        /\ signals[2].payload.text # "No video files found"
        /\ audio_file_path = None
        /\ video_file_paths = <<>>

\* C39 witness: a run on one existing text file has ended with NoAudioFound.
C39_Witness ==
    /\ cpc = "finished"
    /\ file_paths = <<"n.txt">>
    /\ Exists("n.txt")
    /\ signals = <<Started, FinishedWith(InputError("No audio file found"))>>

\* C40: when 1 < count < total frames, the frame indices chosen by
\* extract_evenly_spaced_frames are strictly increasing, all within 0..total-1,
\* the first is 0 and the last is total-1; when count = 1 < total the single
\* index is total div 2; when count >= total the indices are exactly
\* 0..total-1.
C40_EvenlySpacedIndices ==
    (extractor.pc \in {"read", "finally", "done"} /\ extractor.total_frames > 0) =>
        LET ix == extractor.indices_to_extract
            count == extractor.num_frames
            total == extractor.total_frames
        IN  /\ (1 < count /\ count < total) =>
                  /\ Len(ix) = count
                  /\ \A k \in 1..(count - 1) : ix[k] < ix[k + 1]
                  /\ \A k \in 1..count : ix[k] \in 0..(total - 1)
                  /\ ix[1] = 0
                  /\ ix[count] = total - 1
            /\ (count = 1 /\ 1 < total) => ix = <<total \div 2>>
            /\ count >= total =>
                  /\ Len(ix) = total
                  /\ \A k \in 1..total : ix[k] = k - 1

\* C40 witness: four frames of a video of six were asked for, and the
\* indices 0, 1, 3, 5 were chosen.
C40_Witness ==
    /\ extractor.pc = "done"
    /\ extractor.num_frames = 4
    /\ extractor.total_frames = 6
    /\ extractor.indices_to_extract = <<0, 1, 3, 5>>

=============================================================================
